---- MODULE Spec2Model ----
(***************************************************************************)
(* Model of the anomi per-symbol order book: core/orderbook/book.go        *)
(* (OrderBook.AddOrder, OrderBook.RemoveOrder), the BuyerCache             *)
(* (core/orderbook/buyer_cache.go, an LRU keyed by order id) and the       *)
(* matching engine core/orderbook/engine they embed.  The engine package   *)
(* is not part of the source tree at hand; it is modelled from spec.md     *)
(* sections 3, 4.4 and 4.5.  Quote-denominated market orders are left out: *)
(* spec.md section 9 leaves their rounding policy open.                    *)
(*                                                                         *)
(* Decimals are modelled as whole numbers of the smallest step; only       *)
(* add, sub and compare are used on the modelled paths.                    *)
(***************************************************************************)
EXTENDS Integers, Sequences, FiniteSets, TLC

\* ---------------------------------------------------------------- bounds
MaxOps    == 3      \* calls of AddOrder / RemoveOrder per behaviour
SeededOps == 2      \* calls made after a seeded start
MaxQty    == 2      \* quantities are 1..MaxQty
MaxPrice  == 2      \* prices and stop prices are 1..MaxPrice
NumUsers  == 2      \* user ids are 1..NumUsers
BCSize    == 2      \* the bcSize the book is created with
MaxSeen   == 3      \* deliveries to the consumer per behaviour
MaxCalls  == 2      \* handler calls per behaviour
NumThreads == 2     \* request goroutines that may be inside a handler

Buy    == "buy"
Sell   == "sell"
Market == "market"
Limit  == "limit"
Stop   == "stoplimit"
GTC    == "GTC"
IOC    == "IOC"
FOK    == "FOK"
MAKER  == "MAKER"
TAKER  == "TAKER"

Qtys   == 1..MaxQty
Prices == 1..MaxPrice

VARIABLES
  ord,        \* engine: id -> Order (kind "none" until submitted)
  bids,       \* engine: bid side book, ids in price (desc) / arrival order
  asks,       \* engine: ask side book, ids in price (asc) / arrival order
  bstops,     \* engine: StopTable, buy stops by ascending stop price
  sstops,     \* engine: StopTable, sell stops by descending stop price
  clock,      \* engine: arrival sequence of orders coming to rest
  bc,         \* BuyerCache: sequence of BuyerPos, most recently used first
  nextId,     \* id of the next submission
  steps,      \* calls made so far
  receiptLog, \* every receipt emitted so far, in order, as <<user, order>>
  fokUnfilled,\* ids of the FOK submissions that did not fill
  last,       \* the last operation: its input, result and pre-state
  written,    \* history: cached ids, the most recently inserted/updated first
  used,       \* history: cached ids, the most recently inserted/updated/looked
              \* up first
  evicted,    \* history: ids whose entry the LRU dropped
  kvdb,       \* KvDB: the keys stored, as messages <<type, id>>
  bus,        \* RabbitMQ queue: the messages published and not acknowledged
  pgdb,       \* PostgreSQL: the rows the consumer created, as <<type, id>>
  seen,       \* history: the messages delivered to the consumer, in order
  acks,       \* history: what the consumer did with each delivery of seen
  sends,      \* history: every Send of the producer and how it ended
  calls,      \* the handler call each request goroutine is in
  applied     \* history: the operations applied to the book, in order

vars == <<ord, bids, asks, bstops, sstops, clock, bc, nextId, steps,
          receiptLog, fokUnfilled, last, written, used, evicted,
          kvdb, bus, pgdb, seen, acks, sends, calls, applied>>

\* ------------------------------------------------------------ engine.Order
NoOrder ==
  [user |-> 0, side |-> Buy, kind |-> "none", tif |-> "", price |-> 0,
   stop |-> 0, orig |-> 0, rem |-> 0, canceled |-> FALSE, seq |-> 0]

NewMarketOrder(side, qty, user) ==
  [user |-> user, side |-> side, kind |-> Market, tif |-> "", price |-> 0,
   stop |-> 0, orig |-> qty, rem |-> qty, canceled |-> FALSE, seq |-> 0]

NewLimitOrder(side, qty, price, tif, user) ==
  [user |-> user, side |-> side, kind |-> Limit, tif |-> tif, price |-> price,
   stop |-> 0, orig |-> qty, rem |-> qty, canceled |-> FALSE, seq |-> 0]

NewStopLimitOrder(side, qty, price, stop, user) ==
  [user |-> user, side |-> side, kind |-> Stop, tif |-> "", price |-> price,
   stop |-> stop, orig |-> qty, rem |-> qty, canceled |-> FALSE, seq |-> 0]

MarketOrders(U) ==
  { NewMarketOrder(s, q, u) : s \in {Buy, Sell}, q \in Qtys, u \in U }

LimitOrders(U) ==
  { NewLimitOrder(x[1], x[2], x[3], x[4], x[5]) :
      x \in {Buy, Sell} \X Qtys \X Prices \X {GTC, IOC, FOK} \X U }

StopOrders(U) ==
  { NewStopLimitOrder(x[1], x[2], x[3], x[4], x[5]) :
      x \in {Buy, Sell} \X Qtys \X Prices \X Prices \X U }

\* Submissions the engine rejects: quantity 0, or already cancelled
InvalidOrders(U) ==
  { [o EXCEPT !.orig = 0, !.rem = 0] :
      o \in { NewMarketOrder(Buy, 1, u) : u \in U }
               \cup { NewLimitOrder(Buy, 1, 1, GTC, u) : u \in U } }
    \cup
  { [o EXCEPT !.canceled = TRUE] :
      o \in { NewMarketOrder(Buy, 1, u) : u \in U }
               \cup { NewLimitOrder(Buy, 1, 1, GTC, u) : u \in U } }

\* Submissions that reuse the id of an order of the book
DuplicateOrders(U) ==
  { NewMarketOrder(Buy, 1, u) : u \in U }
    \cup { NewLimitOrder(Buy, 1, 1, GTC, u) : u \in U }

\* Call sequences a seeded start has made on a new book.
\* SeedStop: two asks at two prices and a buy stop at the lower one
SeedStop ==
  << NewLimitOrder(Sell, 1, 2, GTC, 1), NewLimitOrder(Sell, 1, 1, GTC, 1),
     NewStopLimitOrder(Buy, 1, 2, 1, 2) >>

\* SeedEvict: three resting buys, one more than the cache holds
SeedEvict ==
  << NewLimitOrder(Buy, 1, 1, GTC, 1), NewLimitOrder(Buy, 1, 1, GTC, 1),
     NewLimitOrder(Buy, 1, 1, GTC, 1) >>

\* SeedPartial: a buy, a sell that fills it in part, a second buy
SeedPartial ==
  << NewLimitOrder(Buy, 2, 1, GTC, 1), NewLimitOrder(Sell, 1, 1, GTC, 2),
     NewLimitOrder(Buy, 1, 1, GTC, 1) >>

Seeds == { <<>>, SeedStop, SeedEvict, SeedPartial }

\* ids of the calls of a run, after the longest seed
Ids == 1..(MaxOps + Len(SeedStop))

IsMarketOrder(o) == o.kind = Market
IsLimitOrder(o)  == o.kind = Limit

Min(a, b) == IF a < b THEN a ELSE b

\* --------------------------------------------------------------- SideBook
\* The engine state threaded through one submission.
Engine(o, b, a, bs, ss, c) ==
  [ord |-> o, bids |-> b, asks |-> a, bstops |-> bs, sstops |-> ss, clock |-> c]

\* mutant: the ask side is compared like the bid side
BetterOrEqualBidOrder(side, p, q) == p >= q

\* price p is at least as good as price q on the given side of the book
BetterOrEqual(side, p, q) == IF side = Buy THEN p >= q ELSE p <= q

\* mutant: the order goes to the head of its price level instead of the tail
SideInsertAtHead(o, side, q, id) ==
  LET k == Cardinality({ i \in 1..Len(q) :
                           BetterOrEqual(side, o[q[i]].price, o[id].price)
                             /\ o[q[i]].price # o[id].price })
  IN  SubSeq(q, 1, k) \o <<id>> \o SubSeq(q, k + 1, Len(q))

\* SideBook.insert: tail of the order's price level, levels kept in price order
SideInsert(o, side, q, id) ==
  LET k == Cardinality({ i \in 1..Len(q) :
                           BetterOrEqual(side, o[q[i]].price, o[id].price) })
  IN  SubSeq(q, 1, k) \o <<id>> \o SubSeq(q, k + 1, Len(q))

\* SideBook.remove / PriceLevel.remove
SeqRemove(q, id) == SelectSeq(q, LAMBDA x : x # id)

\* the FIFO queue of the price level at price p
LevelAt(o, q, p) == SelectSeq(q, LAMBDA x : o[x].price = p)

\* StopTable insert: buy stops ascending by stop price, sell stops descending
StopInsert(o, side, q, id) ==
  LET k == Cardinality({ i \in 1..Len(q) :
                           IF side = Buy THEN o[q[i]].stop <= o[id].stop
                                         ELSE o[q[i]].stop >= o[id].stop })
  IN  SubSeq(q, 1, k) \o <<id>> \o SubSeq(q, k + 1, Len(q))

Opposing(e, side) == IF side = Buy THEN e.asks ELSE e.bids

SetOpposing(e, side, q) ==
  IF side = Buy THEN [e EXCEPT !.asks = q] ELSE [e EXCEPT !.bids = q]

\* ----------------------------------------------------------- MatchingCore
\* mutant: a sell's limit is compared like a buy's
WorseBuyOnly(side, levelPrice, limit) == levelPrice > limit

\* step 3a: the best level's price is worse than the taker's limit
Worse(side, levelPrice, limit) ==
  IF side = Buy THEN levelPrice > limit ELSE levelPrice < limit

\* mutant: the entry of a limit order carries that order's own limit price
TradeOrderAtOwnPrice(id, o, role, price, qty) ==
  [order |-> id, user |-> o.user, role |-> role,
   price |-> IF o.kind = Limit THEN o.price ELSE price, qty |-> qty]

TradeOrder(id, o, role, price, qty) ==
  [order |-> id, user |-> o.user, role |-> role, price |-> price, qty |-> qty]

RECURSIVE SumRem(_, _)
SumRem(o, q) == IF q = <<>> THEN 0 ELSE o[Head(q)].rem + SumRem(o, Tail(q))

\* FOK pre-flight: dry-run sum over opposing levels within the price constraint
CanFillFully(e, id) ==
  LET t   == e.ord[id]
      ok  == SelectSeq(Opposing(e, t.side),
                       LAMBDA x : ~Worse(t.side, e.ord[x].price, t.price))
  IN  SumRem(e.ord, ok) >= t.rem

\* mutant: the self-match guard is switched off
SelfMatchNever(mo, t) == FALSE

\* step 3c, the self-match guard: maker and taker belong to the same user
SelfMatch(mo, t) == mo.user = t.user

\* step 3: the matching loop of one taker.  st = [e, trades, fills,
\* selfCancels]; fills and selfCancels record what the loop did, match by match.
RECURSIVE MatchLoop(_, _)
MatchLoop(st, id) ==
  LET e   == st.e
      t   == e.ord[id]
      opp == Opposing(e, t.side)
  IN  IF t.rem = 0 \/ opp = <<>> THEN st
      ELSE
        LET m  == Head(opp)
            mo == e.ord[m]
        IN  IF t.kind = Limit /\ Worse(t.side, mo.price, t.price) THEN st
            ELSE IF mo.canceled THEN
              MatchLoop([st EXCEPT !.e = SetOpposing(e, t.side, Tail(opp))], id)
            ELSE IF SelfMatch(mo, t) THEN
              \* self-match guard: pop the maker and cancel it, no trade
              MatchLoop(
                [st EXCEPT !.e = SetOpposing(
                     [e EXCEPT !.ord[m].canceled = TRUE], t.side, Tail(opp)),
                           !.selfCancels = Append(st.selfCancels,
                              [taker |-> id, maker |-> m, user |-> t.user])],
                id)
            ELSE
              LET fill == Min(t.rem, mo.rem)
                  o2   == [e.ord EXCEPT ![m].rem = mo.rem - fill,
                                        ![id].rem = t.rem - fill]
                  opp2 == IF mo.rem - fill = 0 THEN Tail(opp) ELSE opp
                  f    == [taker |-> id, maker |-> m, price |-> mo.price,
                           qty |-> fill, side |-> t.side,
                           takerUser |-> t.user, makerUser |-> mo.user,
                           takerKind |-> t.kind, takerLimit |-> t.price,
                           makerSeq |-> mo.seq,
                           oppPrices |-> { e.ord[opp[i]].price : i \in 1..Len(opp) },
                           levelSeqs |-> { e.ord[opp[i]].seq :
                                           i \in { j \in 1..Len(opp) :
                                                     e.ord[opp[j]].price = mo.price } },
                           makerLeft |-> mo.rem - fill]
              IN  MatchLoop(
                    [e      |-> SetOpposing([e EXCEPT !.ord = o2], t.side, opp2),
                     trades |-> st.trades \o
                                  << TradeOrder(m, mo, MAKER, mo.price, fill),
                                     TradeOrder(id, t, TAKER, mo.price, fill) >>,
                     fills  |-> Append(st.fills, f),
                     selfCancels |-> st.selfCancels],
                    id)

\* step 4: what happens to the taker's residual; returns the engine state
RestResidual(e, id) ==
  LET t == e.ord[id]
  IN  IF t.kind = Limit /\ t.tif \notin {IOC, FOK} /\ t.rem > 0
      THEN LET o2 == [e.ord EXCEPT ![id].seq = e.clock + 1]
           IN  IF t.side = Buy
               THEN [e EXCEPT !.ord = o2, !.clock = e.clock + 1,
                              !.bids = SideInsert(o2, Buy, e.bids, id)]
               ELSE [e EXCEPT !.ord = o2, !.clock = e.clock + 1,
                              !.asks = SideInsert(o2, Sell, e.asks, id)]
      ELSE e

\* MatchingCore for the taker id (already entered in e.ord)
RestAfterMatch(r, id) == [r EXCEPT !.e = RestResidual(r.e, id)]

RunTaker(st, id) ==
  IF st.e.ord[id].kind = Limit /\ st.e.ord[id].tif = FOK
       /\ ~CanFillFully(st.e, id)
  THEN st
  ELSE RestAfterMatch(MatchLoop(st, id), id)

\* ---------------------------------------------------------- stop activation
LastTradePrice(trades) == trades[Len(trades)].price

\* mutant: a sell stop is triggered like a buy stop
TriggeredLikeBuy(o, id, lastPrice) == lastPrice >= o[id].stop

Triggered(o, id, lastPrice) ==
  IF o[id].side = Buy THEN lastPrice >= o[id].stop
                      ELSE lastPrice <= o[id].stop

\* re-submit the activated stops of one pass, in order, as fresh limit orders
RECURSIVE Resubmit(_, _)
Resubmit(st, ids) ==
  IF ids = <<>> THEN st
  ELSE LET id == Head(ids)
           e2 == [st.e EXCEPT !.ord[id].kind = Limit, !.ord[id].tif = GTC]
       IN  Resubmit(RunTaker([st EXCEPT !.e = e2], id), Tail(ids))

\* mutant: one pass only, the stops a resubmission triggers stay parked
ActivateStopsOnePass(st) ==
  IF st.trades = <<>> THEN st
  ELSE Resubmit(
         [st EXCEPT
            !.e.bstops = SelectSeq(st.e.bstops, LAMBDA x :
                 ~Triggered(st.e.ord, x, LastTradePrice(st.trades))),
            !.e.sstops = SelectSeq(st.e.sstops, LAMBDA x :
                 ~Triggered(st.e.ord, x, LastTradePrice(st.trades)))],
         SelectSeq(st.e.bstops, LAMBDA x :
                 Triggered(st.e.ord, x, LastTradePrice(st.trades)))
           \o SelectSeq(st.e.sstops, LAMBDA x :
                 Triggered(st.e.ord, x, LastTradePrice(st.trades))))

\* repeat until a pass triggers no new stops
RECURSIVE ActivateStops(_)
ActivateStops(st) ==
  IF st.trades = <<>> THEN st
  ELSE
    LET e  == st.e
        lp == LastTradePrice(st.trades)
        tb == SelectSeq(e.bstops, LAMBDA x : Triggered(e.ord, x, lp))
        ts == SelectSeq(e.sstops, LAMBDA x : Triggered(e.ord, x, lp))
    IN  IF tb = <<>> /\ ts = <<>> THEN st
        ELSE
          LET e2 == [e EXCEPT
                       !.bstops = SelectSeq(e.bstops,
                                    LAMBDA x : ~Triggered(e.ord, x, lp)),
                       !.sstops = SelectSeq(e.sstops,
                                    LAMBDA x : ~Triggered(e.ord, x, lp))]
          IN  ActivateStops(Resubmit([st EXCEPT !.e = e2], tb \o ts))

\* --------------------------------------------------- engine.OrderBook.Process
\* engine.OrderBook.GetOrder: the order if it is in a side book or the StopTable
InBook(e, id) ==
  \E i \in 1..Len(e.bids \o e.asks \o e.bstops \o e.sstops) :
      (e.bids \o e.asks \o e.bstops \o e.sstops)[i] = id

Done(processed, left, stored, trades) ==
  [processed |-> processed, left |-> left, stored |-> stored,
   trades |-> trades, partial |-> (0 < processed /\ left > 0)]

RECURSIVE MakerQty(_)
MakerQty(trades) ==
  IF trades = <<>> THEN 0
  ELSE (IF Head(trades).role = MAKER THEN Head(trades).qty ELSE 0)
         + MakerQty(Tail(trades))

\* mutant: processed is summed over every trade of the Done, those of the
\* stops the submission activated included
TakerDoneFromTrades(o, left, st) ==
  Done(MakerQty(st.trades), left,
       o.kind = Limit /\ o.tif \notin {IOC, FOK} /\ left > 0,
       st.trades)

\* mutant: the time in force is not looked at, any limit residual is stored
TakerDoneStoredAnyTif(o, left, st) ==
  Done(o.orig - left, left, o.kind = Limit /\ left > 0, st.trades)

\* the Done of a taker: left is what matching left of it, st the state after
\* stop activation, whose trades the Done carries
TakerDone(o, left, st) ==
  Done(o.orig - left, left,
       o.kind = Limit /\ o.tif \notin {IOC, FOK} /\ left > 0,
       st.trades)

\* step 2: a stop-limit order is parked in the StopTable
Park(e1, o) ==
  [err |-> FALSE,
   e |-> IF o.side = Buy
         THEN [e1 EXCEPT !.bstops = StopInsert(e1.ord, Buy, e1.bstops, o.id)]
         ELSE [e1 EXCEPT !.sstops = StopInsert(e1.ord, Sell, e1.sstops, o.id)],
   done |-> Done(0, o.orig, TRUE, <<>>), fills |-> <<>>, selfCancels |-> <<>>]

ProcessResult(o, left, st) ==
  [err |-> FALSE, e |-> st.e, done |-> TakerDone(o, left, st),
   fills |-> st.fills, selfCancels |-> st.selfCancels]

\* step 4: after matching (state m), reactivate the triggered stops
AfterMatch(o, m) == ProcessResult(o, m.e.ord[o.id].rem, ActivateStops(m))

\* the order enters the engine's index
Enter(e, o) == [e EXCEPT !.ord[o.id] = [f \in DOMAIN NoOrder |-> o[f]]]

\* Process(order): order is a fresh Order record tagged with its id
Process(e, o) ==
  IF o.canceled \/ o.orig <= 0 \/ InBook(e, o.id)
  THEN [err |-> TRUE, e |-> e, done |-> Done(0, 0, FALSE, <<>>), fills |-> <<>>,
        selfCancels |-> <<>>]
  ELSE IF o.kind = Stop
  THEN Park(Enter(e, o), o)
  ELSE AfterMatch(o, RunTaker([e |-> Enter(e, o), trades |-> <<>>,
                               fills |-> <<>>, selfCancels |-> <<>>], o.id))

\* engine.OrderBook.CancelOrder: mark cancelled and remove from its level
CancelOrder(e, id) ==
  IF ~InBook(e, id) THEN e
  ELSE [e EXCEPT !.ord[id].canceled = TRUE,
                 !.bids = SeqRemove(e.bids, id),
                 !.asks = SeqRemove(e.asks, id),
                 !.bstops = SeqRemove(e.bstops, id),
                 !.sstops = SeqRemove(e.sstops, id)]

\* ------------------------------------------------------------- BuyerCache
\* A BuyerPos: order points at the engine Order (by id), trades are the trades
\* accumulated for it, left is the quantity still to fill.
BuyerPos(id, trades, left) == [order |-> id, trades |-> trades, left |-> left]

BcIndex(c, id) ==
  IF \E i \in 1..Len(c) : c[i].order = id
  THEN CHOOSE i \in 1..Len(c) : c[i].order = id
  ELSE 0

BcHas(c, id) == BcIndex(c, id) # 0
BcPos(c, id) == c[BcIndex(c, id)]
BcDrop(c, id) == SelectSeq(c, LAMBDA p : p.order # id)

\* the default capacity of the BuyerCache
BCSIZE == 50000

\* NewOrderBook: the capacity of the cache of a book created with bcSize
Capacity(bcSize) == IF bcSize = 0 THEN BCSIZE ELSE bcSize

\* mutant: a lookup leaves the recency order alone
BcGetNoTouch(c, id) == c

\* BuyerCache.Get: a hit makes the entry the most recently used
BcGet(c, id) ==
  IF BcHas(c, id) THEN <<BcPos(c, id)>> \o BcDrop(c, id) ELSE c

\* BuyerCache.Set (lru.Cache.Add): update or insert at the front; an insert
\* beyond the capacity evicts the least recently used entry
BcSet(c, id, pos) ==
  LET c2 == <<pos>> \o BcDrop(c, id)
  IN  IF Len(c2) > Capacity(BCSize) THEN SubSeq(c2, 1, Capacity(BCSize))
      ELSE c2

\* BuyerCache.Remove
BcRemove(c, id) == BcDrop(c, id)

\* --------------------------------------------------- orderbook.OrderBook
Receipt(user, id, trades, filled) ==
  [user |-> user, order |-> id, trades |-> trades, filled |-> filled]

\* mutant: the receipt reports the requested quantity as filled
MarketBuyCaseFilledOrig(c, o, done) ==
  [bc |-> c,
   receipts |-> << Receipt(o.user, o.id, done.trades, o.orig) >>]

\* Case 0: BUY MARKET -- always one receipt for the buyer
MarketBuyCase(c, o, done) ==
  [bc |-> c,
   receipts |-> << Receipt(o.user, o.id, done.trades, done.processed) >>]

\* mutant: the trade is appended but left is not reduced
AddTradeNoSub(pos, t) == [pos EXCEPT !.trades = Append(pos.trades, t)]

\* append a trade to a position and subtract its quantity from left
AddTrade(pos, t) ==
  [pos EXCEPT !.trades = Append(pos.trades, t), !.left = pos.left - t.qty]

\* Case 1, the loop that updates pos with the trades matched against a seller
RECURSIVE ApplyTrades(_, _, _)
ApplyTrades(pos, id, trades) ==
  IF trades = <<>> THEN pos
  ELSE LET t == Head(trades)
       IN  IF t.order # id
           THEN ApplyTrades(AddTrade(pos, t), id, Tail(trades))
           ELSE ApplyTrades(pos, id, Tail(trades))

\* mutant: a position with nothing left counts as still active
StillActiveOrZero(pos) == pos.left >= 0

\* the test that keeps a position in the cache
StillActive(pos) == pos.left > 0

\* Case 1: the position of the order, from the cache or new
LimitBuyPos(c, o) ==
  IF BcHas(c, o.id) THEN BcPos(c, o.id) ELSE BuyerPos(o.id, <<>>, o.orig)

\* Case 1: keep the updated position, or remove it and emit the receipt
LimitBuySettle(c1, o, pos) ==
  IF StillActive(pos)
  THEN [bc |-> BcSet(c1, o.id, pos), receipts |-> <<>>]
  ELSE [bc |-> BcRemove(c1, o.id),
        receipts |-> << Receipt(o.user, o.id, pos.trades, o.orig) >>]

\* mutant: the receipt is appended whether or not the position is still active
LimitBuyCaseAlwaysReceipt(c, o, done) ==
  [bc |-> LimitBuySettle(BcGet(c, o.id), o,
            ApplyTrades(LimitBuyPos(c, o), o.id, done.trades)).bc,
   receipts |-> << Receipt(o.user, o.id,
                     ApplyTrades(LimitBuyPos(c, o), o.id, done.trades).trades,
                     o.orig) >>]

\* Case 1: BUY LIMIT
LimitBuyCase(c, o, done) ==
  LimitBuySettle(BcGet(c, o.id), o,
                 ApplyTrades(LimitBuyPos(c, o), o.id, done.trades))

\* mutant: the completed entry is removed but its receipt is not appended
SellSettleNoReceipt(st, c1, o, pos) ==
  IF StillActive(pos)
  THEN [st EXCEPT !.bc = BcSet(c1, pos.order, pos)]
  ELSE [st EXCEPT !.bc = BcRemove(c1, pos.order)]

\* Case 2, one trade whose maker is in the cache: c1 is the cache after the Get,
\* pos the maker's position with the trade added
SellSettle(st, c1, o, pos) ==
  IF StillActive(pos)
  THEN [st EXCEPT !.bc = BcSet(c1, pos.order, pos)]
  ELSE [bc |-> BcRemove(c1, pos.order),
        receipts |-> Append(st.receipts,
                       Receipt(o[pos.order].user, pos.order, pos.trades,
                               o[pos.order].orig))]

\* mutant: a buyer filled in full gets a receipt for the trade at hand when it
\* has no entry in the cache
RECURSIVE SellCaseAnyMaker(_, _, _)
SellCaseAnyMaker(st, o, trades) ==
  IF trades = <<>> THEN st
  ELSE IF BcHas(st.bc, Head(trades).order)
  THEN SellCaseAnyMaker(SellSettle(st, BcGet(st.bc, Head(trades).order), o,
                                   AddTrade(BcPos(st.bc, Head(trades).order),
                                            Head(trades))),
                        o, Tail(trades))
  ELSE IF Head(trades).role = MAKER /\ o[Head(trades).order].side = Buy
          /\ o[Head(trades).order].rem = 0
  THEN SellCaseAnyMaker(
         [st EXCEPT !.receipts =
            Append(@, Receipt(Head(trades).user, Head(trades).order,
                              << Head(trades) >>, Head(trades).qty))],
         o, Tail(trades))
  ELSE SellCaseAnyMaker(st, o, Tail(trades))

\* Case 2: SELL -- st = [bc, receipts], folded over done.Trades
RECURSIVE SellCase(_, _, _)
SellCase(st, o, trades) ==
  IF trades = <<>> THEN st
  ELSE IF BcHas(st.bc, Head(trades).order)
  THEN SellCase(SellSettle(st, BcGet(st.bc, Head(trades).order), o,
                           AddTrade(BcPos(st.bc, Head(trades).order),
                                    Head(trades))),
                o, Tail(trades))
  ELSE SellCase(st, o, Tail(trades))

\* Orders that are neither in the book nor pointed at by a BuyerPos are
\* unreachable: the engine's index has dropped them.
Forget(e, c) ==
  [e EXCEPT !.ord = [i \in Ids |-> IF InBook(e, i) \/ BcHas(c, i)
                              THEN e.ord[i] ELSE NoOrder]]

\* the receipts and the cache after Process returned p without error
Derive(c, o, p) ==
  IF o.side = Buy /\ IsMarketOrder(o) THEN MarketBuyCase(c, o, p.done)
  ELSE IF o.side = Buy /\ IsLimitOrder(o) THEN LimitBuyCase(c, o, p.done)
  ELSE IF o.side = Sell
    THEN SellCase([bc |-> c, receipts |-> <<>>], p.e.ord, p.done.trades)
  ELSE [bc |-> c, receipts |-> <<>>]

AddOrderReturn(p, r) ==
  [err |-> FALSE, e |-> Forget(p.e, r.bc), bc |-> r.bc, done |-> p.done,
   receipts |-> r.receipts, fills |-> p.fills, selfCancels |-> p.selfCancels,
   canceled |-> { i \in Ids : p.e.ord[i].canceled }]

\* mutant: the error of Process is passed on but receipts are derived anyway
AddOrderIgnoringErr(e, c, o, p) ==
  [err |-> p.err, e |-> e, bc |-> Derive(c, o, p).bc, done |-> p.done,
   receipts |-> Derive(c, o, p).receipts, fills |-> <<>>,
   selfCancels |-> <<>>, canceled |-> {}]

AddOrderAfterProcess(e, c, o, p) ==
  IF p.err
  THEN [err |-> TRUE, e |-> e, bc |-> c, done |-> p.done, receipts |-> <<>>,
        fills |-> <<>>, selfCancels |-> <<>>, canceled |-> {}]
  ELSE AddOrderReturn(p, Derive(c, o, p))

\* OrderBook.AddOrder, as a function of the engine state e and the cache c
AddOrderResult(e, c, o) == AddOrderAfterProcess(e, c, o, Process(e, o))

\* mutant: the entry leaves the cache but the engine is not asked to cancel
RemovedCacheOnly(e, c2, id) ==
  [err |-> FALSE, e |-> e, bc |-> c2, found |-> InBook(e, id), canceled |-> {}]

\* RemoveOrder past the check: c2 is the cache without id, the engine cancels
Removed(e, c2, id) ==
  [err |-> FALSE, e |-> Forget(CancelOrder(e, id), c2), bc |-> c2,
   found |-> InBook(e, id),
   canceled |-> { i \in Ids : CancelOrder(e, id).ord[i].canceled }]

\* mutant: the partial-fill check is missing
RemoveOrderNoCheck(e, c, id) == Removed(e, BcRemove(BcGet(c, id), id), id)

\* OrderBook.RemoveOrder
RemoveOrderResult(e, c, id) ==
  IF BcHas(c, id) /\ BcPos(c, id).left # e.ord[BcPos(c, id).order].orig
  THEN [err |-> TRUE, e |-> e, bc |-> BcGet(c, id), found |-> FALSE,
        canceled |-> {}]
  ELSE Removed(e, BcRemove(BcGet(c, id), id), id)

\* ------------------------------------------------------------ state machine
CurEngine == Engine(ord, bids, asks, bstops, sstops, clock)

NoDone == Done(0, 0, FALSE, <<>>)

RECURSIVE ReceiptKeys(_)
ReceiptKeys(rs) ==
  IF rs = <<>> THEN <<>>
  ELSE << <<Head(rs).user, Head(rs).order>> >> \o ReceiptKeys(Tail(rs))

\* the order o as the Order object with id
WithId(o, id) == [f \in DOMAIN o \cup {"id"} |-> IF f = "id" THEN id ELSE o[f]]

\* ---- history of the cache: who was written, who was used, who was evicted
\* ids whose entry a call inserted or updated (BuyerCache.Set)
SetIds(c, c2) ==
  { c2[i].order : i \in { k \in 1..Len(c2) :
        ~BcHas(c, c2[k].order) \/ BcPos(c, c2[k].order) # c2[k] } }

RECURSIVE SetSeq(_)
SetSeq(S) ==
  IF S = {} THEN <<>>
  ELSE LET x == CHOOSE y \in S : \A z \in S : y <= z
       IN  <<x>> \o SetSeq(S \ {x})

\* the ids of W, the one set last first: the sets of a call follow its trades
RECURSIVE LastSetFirst(_, _, _)
LastSetFirst(trades, W, acc) ==
  IF trades = <<>>
  THEN acc \o SetSeq(W \ { acc[i] : i \in 1..Len(acc) })
  ELSE IF trades[Len(trades)].order \in W
          /\ trades[Len(trades)].order \notin { acc[i] : i \in 1..Len(acc) }
  THEN LastSetFirst(SubSeq(trades, 1, Len(trades) - 1), W,
                    Append(acc, trades[Len(trades)].order))
  ELSE LastSetFirst(SubSeq(trades, 1, Len(trades) - 1), W, acc)

\* a recency list after a call: the ids touched by it first, then the others
\* that are still cached
Touch(h, first, c2) ==
  first \o SelectSeq(h, LAMBDA x : BcHas(c2, x)
                          /\ x \notin { first[i] : i \in 1..Len(first) })

\* ids the LRU evicted: AddOrder of a limit buy sets and removes only the
\* entry of that buy, so any other entry that is gone after it was evicted
Dropped(c, c2, o) ==
  IF o.side = Buy /\ IsLimitOrder(o)
  THEN { c[i].order : i \in { k \in 1..Len(c) : ~BcHas(c2, c[k].order) } }
  ELSE {}

\* ---- request goroutines: the handler call each one is in
Threads == 1..NumThreads

Idle == [pc |-> "idle", op |-> "none", id |-> 0, qty |-> 0]

\* ---- the whole state as a record, and the state after each call
Cur ==
  [ord |-> ord, bids |-> bids, asks |-> asks, bstops |-> bstops,
   sstops |-> sstops, clock |-> clock, bc |-> bc, nextId |-> nextId,
   steps |-> steps, receiptLog |-> receiptLog, fokUnfilled |-> fokUnfilled,
   last |-> last, written |-> written, used |-> used, evicted |-> evicted,
   kvdb |-> kvdb, bus |-> bus, pgdb |-> pgdb, seen |-> seen,
   acks |-> acks, sends |-> sends, calls |-> calls, applied |-> applied]

EngineOf(s) == Engine(s.ord, s.bids, s.asks, s.bstops, s.sstops, s.clock)

\* the state NewOrderBook returns
NewOrderBook ==
  [ord |-> [i \in Ids |-> NoOrder],
   bids |-> <<>>, asks |-> <<>>, bstops |-> <<>>, sstops |-> <<>>,
   clock |-> 0, bc |-> <<>>, nextId |-> 1, steps |-> 0, receiptLog |-> <<>>,
   fokUnfilled |-> {},
   last |-> [op |-> "none", id |-> 0, order |-> NoOrder, err |-> FALSE,
             done |-> NoDone, receipts |-> <<>>, fills |-> <<>>,
             selfCancels |-> <<>>, canceled |-> {}, found |-> FALSE],
   written |-> <<>>, used |-> <<>>, evicted |-> {},
   kvdb |-> {}, bus |-> <<>>,
   pgdb |-> [orders |-> {}, trades |-> <<>>, receipts |-> <<>>],
   seen |-> <<>>, acks |-> <<>>, sends |-> <<>>,
   calls |-> [t \in Threads |-> Idle], applied |-> <<>>]

\* the state after AddOrder(o) under the id returned r; fresh tells whether
\* the id was the next new one
AddOrderState(s, o, id, fresh, r) ==
  [ord |-> r.e.ord, bids |-> r.e.bids, asks |-> r.e.asks,
   bstops |-> r.e.bstops, sstops |-> r.e.sstops, clock |-> r.e.clock,
   bc |-> r.bc,
   nextId |-> IF fresh THEN s.nextId + 1 ELSE s.nextId,
   steps |-> s.steps + 1,
   receiptLog |-> s.receiptLog \o ReceiptKeys(r.receipts),
   fokUnfilled |->
     IF ~r.err /\ o.kind = Limit /\ o.tif = FOK /\ r.done.processed < o.orig
     THEN s.fokUnfilled \cup {id} ELSE s.fokUnfilled,
   last |-> [op |-> "add", id |-> id, order |-> o, err |-> r.err,
             done |-> r.done, receipts |-> r.receipts, fills |-> r.fills,
             selfCancels |-> r.selfCancels, canceled |-> r.canceled,
             found |-> FALSE],
   written |-> Touch(s.written,
                 LastSetFirst(r.done.trades, SetIds(s.bc, r.bc), <<>>), r.bc),
   used |-> Touch(s.used,
              LastSetFirst(r.done.trades, SetIds(s.bc, r.bc), <<>>), r.bc),
   evicted |-> s.evicted \cup Dropped(s.bc, r.bc, o),
   kvdb |-> s.kvdb, bus |-> s.bus, pgdb |-> s.pgdb, seen |-> s.seen,
   acks |-> s.acks, sends |-> s.sends, calls |-> s.calls,
   applied |-> s.applied]

\* the state after RemoveOrder(id) returned r
RemoveOrderState(s, id, r) ==
  [s EXCEPT !.ord = r.e.ord, !.bids = r.e.bids, !.asks = r.e.asks,
            !.bstops = r.e.bstops, !.sstops = r.e.sstops,
            !.clock = r.e.clock, !.bc = r.bc, !.steps = s.steps + 1,
            !.last = [op |-> "remove", id |-> id, order |-> s.ord[id],
                      err |-> r.err, done |-> NoDone, receipts |-> <<>>,
                      fills |-> <<>>, selfCancels |-> <<>>,
                      canceled |-> r.canceled, found |-> r.found],
            !.written = Touch(s.written, <<>>, r.bc),
            !.used = Touch(s.used,
                           IF BcHas(r.bc, id) THEN <<id>> ELSE <<>>, r.bc)]

\* the book after the calls of a seed, made one after the other on s
Submit(s, o) ==
  AddOrderState(s, o, s.nextId, TRUE,
                AddOrderResult(EngineOf(s), s.bc, WithId(o, s.nextId)))

RECURSIVE RunSeed(_, _)
RunSeed(s, seed) ==
  IF seed = <<>> THEN s ELSE RunSeed(Submit(s, Head(seed)), Tail(seed))

Start(s) ==
  /\ ord = s.ord /\ bids = s.bids /\ asks = s.asks
  /\ bstops = s.bstops /\ sstops = s.sstops /\ clock = s.clock
  /\ bc = s.bc /\ nextId = s.nextId /\ steps = s.steps
  /\ receiptLog = s.receiptLog /\ fokUnfilled = s.fokUnfilled
  /\ last = s.last
  /\ written = s.written /\ used = s.used /\ evicted = s.evicted
  /\ kvdb = s.kvdb /\ bus = s.bus /\ pgdb = s.pgdb /\ seen = s.seen
  /\ acks = s.acks /\ sends = s.sends /\ calls = s.calls
  /\ applied = s.applied

Become(s) ==
  /\ ord' = s.ord /\ bids' = s.bids /\ asks' = s.asks
  /\ bstops' = s.bstops /\ sstops' = s.sstops /\ clock' = s.clock
  /\ bc' = s.bc /\ nextId' = s.nextId /\ steps' = s.steps
  /\ receiptLog' = s.receiptLog /\ fokUnfilled' = s.fokUnfilled
  /\ last' = s.last
  /\ written' = s.written /\ used' = s.used /\ evicted' = s.evicted
  /\ kvdb' = s.kvdb /\ bus' = s.bus /\ pgdb' = s.pgdb /\ seen' = s.seen
  /\ acks' = s.acks /\ sends' = s.sends /\ calls' = s.calls
  /\ applied' = s.applied

Init == Start(NewOrderBook)

\* a book on which one of the seeds has been played, with SeededOps calls to go
InitSeeded ==
  \E seed \in Seeds :
    Start([RunSeed(NewOrderBook, seed) EXCEPT !.steps = MaxOps - SeededOps])

\* one call of OrderBook.AddOrder with the order o under the next fresh id
AddOrder(o) ==
  /\ steps < MaxOps
  /\ Become(AddOrderState(Cur, o, nextId, TRUE,
              AddOrderResult(CurEngine, bc, WithId(o, nextId))))

\* User ids are opaque and only ever compared for equality, so a submitter
\* is one of the users the state already mentions or one new user: which new
\* user makes no difference.
UsersInUse ==
  { ord[i].user : i \in { j \in Ids : ord[j].kind # "none" } }
    \cup { receiptLog[i][1] : i \in 1..Len(receiptLog) }

Submitters ==
  LET new == (1..NumUsers) \ UsersInUse
  IN  UsersInUse \cup
        (IF new = {} THEN {} ELSE { CHOOSE u \in new : \A v \in new : u <= v })

SubmitMarket == \E o \in MarketOrders(Submitters) : AddOrder(o)
SubmitLimit  == \E o \in LimitOrders(Submitters) : AddOrder(o)
SubmitStop   == \E o \in StopOrders(Submitters) : AddOrder(o)

\* one call of OrderBook.AddOrder with an order the engine does not accept
SubmitInvalid == \E o \in InvalidOrders(Submitters) : AddOrder(o)

\* one call of OrderBook.AddOrder under the id of an order of the book
SubmitDuplicate ==
  \E o \in DuplicateOrders(Submitters) :
    \E id \in { i \in Ids : InBook(CurEngine, i) } :
      /\ steps < MaxOps
      /\ Become(AddOrderState(Cur, o, id, FALSE,
                  AddOrderResult(CurEngine, bc, WithId(o, id))))

\* one call of OrderBook.RemoveOrder on an id that was submitted before
RemoveOrder ==
  \E id \in 1..(nextId - 1) :
    /\ steps < MaxOps
    /\ Become(RemoveOrderState(Cur, id, RemoveOrderResult(CurEngine, bc, id)))

Next == SubmitMarket \/ SubmitLimit \/ SubmitStop \/ RemoveOrder

Spec == Init /\ [][Next]_vars

\* the same calls, and the submissions the engine rejects, from a seeded book
NextSeeded == Next \/ SubmitInvalid \/ SubmitDuplicate

SpecSeeded == InitSeeded /\ [][NextSeeded]_vars

\* ------------------------------------------- handlers, producer, consumer
ORDER_PUT    == "ORDER_PUT"
ORDER_DELETE == "ORDER_DELETE"
ORDER_UPDATE == "ORDER_UPDATE"
TRADE_PUT    == "TRADE_PUT"
RECEIPT_PUT  == "RECEIPT_PUT"

\* an InternalMessage: its type, the order id its payload names, and its ID;
\* mid stands for the value of generateMessageID()
NewInternalMessage(type, id, qty, mid) ==
  [type |-> type, id |-> id, qty |-> qty, mid |-> mid]

\* the order ids a trade or a receipt may name; 0 is the empty id
Refs == 0..(MaxOps - 1)

\* the orders the handler is called with
HandlerOrders(U) ==
  { NewLimitOrder(sd, q, 1, GTC, u) :
      sd \in {Buy, Sell}, q \in Qtys, u \in U }
    \cup InvalidOrders(U)

\* engine.TradeOrder values the handler is called with; user 0 is the empty
\* user id
TradeOrders == [order : Refs, user : {0, 1}, qty : {0, 1}]

\* orderbook.Receipt values the handler is called with; trades is len(Trades)
Receipts == [order : Refs, user : {0, 1}, trades : {0, 1}]

\* deliveries that no producer of this program builds: a body that is not
\* JSON, a type outside the enumeration, an empty message ID, a payload that
\* fails validation, and ORDER_DELETE, which no handler publishes.  Their
\* message ID, where they have one, is -1.
ForeignMessages ==
  { NewInternalMessage("MALFORMED", 0, 0, 0),
    NewInternalMessage("UNKNOWN", 1, 1, -1),
    NewInternalMessage(ORDER_PUT, 1, 1, 0),
    NewInternalMessage(TRADE_PUT, 0, 1, -1),
    NewInternalMessage(ORDER_DELETE, 1, 1, -1) }

\* OrderHandler.validateOrder
validateOrder(o) == o.id # 0 /\ o.user # 0 /\ o.orig # 0

\* TradeHandler.validateTrade
validateTrade(t) == t.order # 0 /\ t.user # 0 /\ t.qty # 0

\* ReceiptHandler.validateReceipt
validateReceipt(r) == r.user # 0 /\ r.order # 0 /\ r.trades # 0

\* ---- validation of a receipt as AddOrder builds it: r.trades is the
\* sequence of trade entries
\* KvDB.validateID
validateID(id) == id # 0

\* KvDB.validateTradeOrderData
validateTradeOrderData(t) ==
  validateID(t.order) /\ t.user # 0 /\ t.qty > 0 /\ t.price > 0

\* KvDB.validateReceiptData: no two trades of a receipt carry the same OrderID
validateReceiptData(r) ==
  /\ validateID(r.order)
  /\ r.user # 0
  /\ r.filled >= 0
  /\ \A i \in 1..Len(r.trades) :
       /\ validateTradeOrderData(r.trades[i])
       /\ \A j \in 1..Len(r.trades) :
            i # j => r.trades[i].order # r.trades[j].order

\* ReceiptHandler.validateReceipt
ReceiptHandlerValidateReceipt(r) ==
  r.user # 0 /\ r.order # 0 /\ Len(r.trades) # 0

\* PgSQLHandler.validateReceipt
PgSQLHandlerValidateReceipt(r) ==
  r.user # 0 /\ r.order # 0 /\ Len(r.trades) # 0

\* ---- producer
\* how a Send may end: the broker confirms the message with an ack, the
\* broker confirms it with a nack (it did not take the message), or the
\* publish itself fails
Outcomes == {"ack", "nack", "err"}

\* RabbitMQProducer.Send: the error is that of PublishWithDeferredConfirm;
\* the result of confirmation.Wait() is dropped
Send(q, msg, outcome) ==
  [err |-> outcome = "err",
   q |-> IF outcome = "ack" THEN Append(q, msg) ELSE q]

\* the state after a Send that returned r
Sent(s, msg, outcome, r) ==
  [s EXCEPT !.bus = r.q,
            !.sends = Append(s.sends, [msg |-> msg, err |-> r.err,
                                       outcome |-> outcome])]

\* RabbitMQMessageProducer.publishInternal on a new message of the type
publishInternal(s, type, id, qty, outcome) ==
  Sent(s, NewInternalMessage(type, id, qty, Len(s.sends) + 1), outcome,
       Send(s.bus, NewInternalMessage(type, id, qty, Len(s.sends) + 1),
            outcome))

\* ---- handlers
\* what a handler call leaves in last
Handled(op, id, o, err) ==
  [op |-> op, id |-> id, order |-> o, err |-> err, done |-> NoDone,
   receipts |-> <<>>, fills |-> <<>>, selfCancels |-> <<>>, canceled |-> {},
   found |-> FALSE]

\* the Order object a goroutine holds is the engine's: its quantity follows
\* what the engine state e did to the order
Refresh(c, e) ==
  IF c.pc # "idle" /\ e.ord[c.id].kind # "none"
  THEN [c EXCEPT !.qty = e.ord[c.id].rem] ELSE c

\* OrderHandler.CreateOrder in goroutine t, up to the return of ob.Process,
\* which returned p
Processed(s, t, o, p) ==
  IF ~validateOrder(o) \/ p.err
  THEN [s EXCEPT !.steps = s.steps + 1, !.nextId = s.nextId + 1,
                 !.calls[t] = Idle,
                 !.last = Handled("CreateOrder", o.id, o, TRUE)]
  ELSE [s EXCEPT
          !.ord = Forget(p.e, s.bc).ord, !.bids = p.e.bids,
          !.asks = p.e.asks, !.bstops = p.e.bstops, !.sstops = p.e.sstops,
          !.clock = p.e.clock,
          !.steps = s.steps + 1, !.nextId = s.nextId + 1,
          !.applied = Append(s.applied, [op |-> "CreateOrder", id |-> o.id]),
          !.calls = [u \in Threads |->
                       IF u = t
                       THEN [pc |-> "PutOrder", op |-> "CreateOrder",
                             id |-> o.id, qty |-> p.e.ord[o.id].rem]
                       ELSE Refresh(s.calls[u], p.e)],
          !.last = [Handled("CreateOrder", o.id, o, FALSE)
                      EXCEPT !.done = p.done, !.fills = p.fills,
                             !.selfCancels = p.selfCancels]]

\* KvDB.validateOrderData on the order of the call c
validateOrderData(c) == c.id # 0 /\ c.qty > 0

\* the handler in goroutine t after KvDB.PutOrder; dbOpen tells whether the
\* store is open
PutOrderDone(s, t, dbOpen) ==
  IF dbOpen /\ validateOrderData(s.calls[t])
  THEN [s EXCEPT !.kvdb = s.kvdb \cup {<<"order", s.calls[t].id>>},
                 !.calls[t].pc = "Publish"]
  ELSE [s EXCEPT !.calls[t] = Idle,
                 !.last = [s.last EXCEPT !.op = s.calls[t].op,
                                         !.id = s.calls[t].id,
                                         !.err = TRUE]]

\* mutant: a publish that failed fails the handler
PublishedOrFailed(s, t, outcome) ==
  [publishInternal(s,
     IF s.calls[t].op = "CreateOrder" THEN ORDER_PUT ELSE ORDER_UPDATE,
     s.calls[t].id, s.calls[t].qty, outcome)
   EXCEPT !.calls[t] = Idle,
          !.last = [s.last EXCEPT !.op = s.calls[t].op,
                                  !.id = s.calls[t].id,
                                  !.err = (outcome = "err")]]

\* the handler in goroutine t after PublishOrderCreated (CreateOrder) or
\* PublishOrderUpdated (CancelOrder): an error is logged and the call returns
\* its result
Published(s, t, outcome) ==
  [publishInternal(s,
     IF s.calls[t].op = "CreateOrder" THEN ORDER_PUT ELSE ORDER_UPDATE,
     s.calls[t].id, s.calls[t].qty, outcome)
   EXCEPT !.calls[t] = Idle,
          !.last = [s.last EXCEPT !.op = s.calls[t].op,
                                  !.id = s.calls[t].id,
                                  !.err = FALSE]]

\* OrderHandler.CancelOrder in goroutine t, up to the return of ob.GetOrder
GotOrder(s, t, id) ==
  IF InBook(EngineOf(s), id)
  THEN [s EXCEPT !.steps = s.steps + 1,
                 !.calls[t] = [pc |-> "CancelOrder", op |-> "CancelOrder",
                               id |-> id, qty |-> s.ord[id].rem]]
  ELSE [s EXCEPT !.steps = s.steps + 1,
                 !.last = Handled("CancelOrder", id, NoOrder, TRUE)]

\* the handler in goroutine t after ob.CancelOrder: the engine returns the
\* order it cancelled, and nil when the id is not in the book; the handler
\* goes on only after nil
Cancelled(s, t) ==
  IF InBook(EngineOf(s), s.calls[t].id)
  THEN [s EXCEPT
          !.ord = Forget(CancelOrder(EngineOf(s), s.calls[t].id), s.bc).ord,
          !.bids = CancelOrder(EngineOf(s), s.calls[t].id).bids,
          !.asks = CancelOrder(EngineOf(s), s.calls[t].id).asks,
          !.bstops = CancelOrder(EngineOf(s), s.calls[t].id).bstops,
          !.sstops = CancelOrder(EngineOf(s), s.calls[t].id).sstops,
          !.applied = Append(s.applied,
                             [op |-> "CancelOrder", id |-> s.calls[t].id]),
          !.calls[t] = Idle,
          !.last = Handled("CancelOrder", s.calls[t].id,
                           s.ord[s.calls[t].id], TRUE)]
  ELSE [s EXCEPT !.calls[t].pc = "PutOrder"]

\* the rest of a call made by one goroutine from start to return
ThenPublish(s, t, outcome) ==
  IF s.calls[t].pc = "idle" THEN s ELSE Published(s, t, outcome)

ThenPutOrder(s, t, dbOpen, outcome) ==
  IF s.calls[t].pc = "idle" THEN s
  ELSE ThenPublish(PutOrderDone(s, t, dbOpen), t, outcome)

ThenCancel(s, t, dbOpen, outcome) ==
  IF s.calls[t].pc = "idle" THEN s
  ELSE ThenPutOrder(Cancelled(s, t), t, dbOpen, outcome)

\* the state after OrderHandler.CreateOrder(o) where Process returned p
CreateOrderState(s, o, p, dbOpen, outcome) ==
  ThenPutOrder(Processed(s, 1, o, p), 1, dbOpen, outcome)

\* the state after OrderHandler.CancelOrder(id)
CancelOrderState(s, id, dbOpen, outcome) ==
  ThenCancel(GotOrder(s, 1, id), 1, dbOpen, outcome)

\* createUpdatedOrder: a new order of the existing order's kind, side, user
\* and id with the quantity and the price of the request
createUpdatedOrder(old, id, qty, price) ==
  WithId(IF old.kind = Stop
         THEN NewStopLimitOrder(old.side, qty, price, old.stop, old.user)
         ELSE IF old.kind = Limit
         THEN NewLimitOrder(old.side, qty, price, old.tif, old.user)
         ELSE NewMarketOrder(old.side, qty, old.user), id)

\* OrderHandler.UpdateOrder after ob.Process returned p without error
UpdateProcessed(s, o, p) ==
  [s EXCEPT
     !.ord = Forget(p.e, s.bc).ord, !.bids = p.e.bids, !.asks = p.e.asks,
     !.bstops = p.e.bstops, !.sstops = p.e.sstops, !.clock = p.e.clock,
     !.steps = s.steps + 1,
     !.applied = Append(s.applied, [op |-> "UpdateOrder", id |-> o.id]),
     !.calls[1] = [pc |-> "PutOrder", op |-> "UpdateOrder", id |-> o.id,
                   qty |-> p.e.ord[o.id].rem],
     !.last = [Handled("UpdateOrder", o.id, o, FALSE)
                 EXCEPT !.done = p.done, !.fills = p.fills,
                        !.selfCancels = p.selfCancels]]

\* OrderHandler.UpdateOrder(o) where Process returned p: validateOrder,
\* ob.Process, KvDB.DeleteOrder, KvDB.PutOrder, PublishOrderUpdated
Updated(s, o, p, dbOpen, outcome) ==
  IF ~validateOrder(o) \/ p.err
  THEN [s EXCEPT !.steps = s.steps + 1,
                 !.last = Handled("UpdateOrder", o.id, o, TRUE)]
  ELSE IF ~dbOpen
  THEN [UpdateProcessed(s, o, p) EXCEPT !.calls[1] = Idle, !.last.err = TRUE]
  ELSE ThenPutOrder([UpdateProcessed(s, o, p)
                       EXCEPT !.kvdb = s.kvdb \ {<<"order", o.id>>}],
                    1, TRUE, outcome)

\* the state after handleOrderUpdate for the id: GetOrder, createUpdatedOrder,
\* UpdateOrder
UpdateOrderState(s, id, qty, price, dbOpen, outcome) ==
  IF ~InBook(EngineOf(s), id)
  THEN [s EXCEPT !.steps = s.steps + 1,
                 !.last = Handled("UpdateOrder", id, NoOrder, TRUE)]
  ELSE Updated(s, createUpdatedOrder(s.ord[id], id, qty, price),
               Process(EngineOf(s),
                       createUpdatedOrder(s.ord[id], id, qty, price)),
               dbOpen, outcome)

\* the state after TradeHandler.CreateTrade(t); valid is validateTrade's
\* verdict
CreateTradeState(s, t, valid, dbOpen, outcome) ==
  IF ~valid \/ ~dbOpen
  THEN [s EXCEPT !.steps = s.steps + 1,
                 !.last = Handled("CreateTrade", t.order, NoOrder, TRUE)]
  ELSE [publishInternal(s, TRADE_PUT, t.order, t.qty, outcome)
          EXCEPT !.steps = s.steps + 1,
                 !.kvdb = s.kvdb \cup {<<"trade", t.order>>},
                 !.last = Handled("CreateTrade", t.order, NoOrder, FALSE)]

\* the state after ReceiptHandler.CreateReceipt(r)
CreateReceiptState(s, r, dbOpen, outcome) ==
  IF ~validateReceipt(r) \/ ~dbOpen
  THEN [s EXCEPT !.steps = s.steps + 1,
                 !.last = Handled("CreateReceipt", r.order, NoOrder, TRUE)]
  ELSE [publishInternal(s, RECEIPT_PUT, r.order, r.trades, outcome)
          EXCEPT !.steps = s.steps + 1,
                 !.kvdb = s.kvdb \cup {<<"receipt", r.order>>},
                 !.last = Handled("CreateReceipt", r.order, NoOrder, FALSE)]

\* ---- consumer
\* rpc.FromBytes
FromBytes(m) == m.type # "MALFORMED"

\* PgSQLHandler.validateMessage
validateMessage(m) ==
  /\ m.mid # 0
  /\ m.type \in {ORDER_PUT, ORDER_DELETE, ORDER_UPDATE, TRADE_PUT,
                 RECEIPT_PUT}

\* PgSQLHandler.validateOrder, validateTrade, validateReceipt on the payload:
\* the id is not empty and the quantity (of a receipt, the number of trades)
\* is not zero
validPayload(m) == m.id # 0 /\ m.qty # 0

\* the store is asked only for a payload that passed the handler's validation
Asks(m) == IF m.type = ORDER_DELETE THEN m.id # 0 ELSE validPayload(m)

Failed(db) == [err |-> TRUE, db |-> db]
Applied(db) == [err |-> FALSE, db |-> db]

\* mutant: no existence check, so the insert of a row that is there fails
handleOrderPutNoCheck(db, m, dbUp) ==
  IF ~validPayload(m) \/ ~dbUp \/ m.id \in db.orders THEN Failed(db)
  ELSE Applied([db EXCEPT !.orders = db.orders \cup {m.id}])

\* PgSQLHandler.handleOrderPut; dbUp tells whether the store answers.  When
\* the lookup fails the insert is tried and fails too.
handleOrderPut(db, m, dbUp) ==
  IF ~validPayload(m) THEN Failed(db)
  ELSE IF dbUp /\ m.id \in db.orders THEN Applied(db)
  ELSE IF ~dbUp THEN Failed(db)
  ELSE Applied([db EXCEPT !.orders = db.orders \cup {m.id}])

\* PgSQLHandler.handleOrderDelete: a lookup that fails, for whatever reason,
\* is taken for a missing row
handleOrderDelete(db, m, dbUp) ==
  IF m.id = 0 THEN Failed(db)
  ELSE IF ~dbUp \/ m.id \notin db.orders THEN Applied(db)
  ELSE Applied([db EXCEPT !.orders = db.orders \ {m.id}])

\* PgSQLHandler.handleOrderUpdate: the row is rewritten under its id
handleOrderUpdate(db, m, dbUp) ==
  IF ~validPayload(m) \/ ~dbUp \/ m.id \notin db.orders THEN Failed(db)
  ELSE Applied(db)

\* PgSQLHandler.handleTradePut: NewTradeFromEngine gives the row a new uuid,
\* which the existence check never finds; a row is the order id it names
handleTradePut(db, m, dbUp) ==
  IF ~validPayload(m) \/ ~dbUp THEN Failed(db)
  ELSE Applied([db EXCEPT !.trades = Append(db.trades, m.id)])

\* PgSQLHandler.handleReceiptPut: CreateReceiptsFromEngine gives each row a
\* new uuid; the receipts here have one trade, so one row
handleReceiptPut(db, m, dbUp) ==
  IF ~validPayload(m) \/ ~dbUp THEN Failed(db)
  ELSE Applied([db EXCEPT !.receipts = Append(db.receipts, m.id)])

\* PgSQLHandler.processMessage
processMessage(db, m, dbUp) ==
  IF m.type = ORDER_PUT THEN handleOrderPut(db, m, dbUp)
  ELSE IF m.type = ORDER_DELETE THEN handleOrderDelete(db, m, dbUp)
  ELSE IF m.type = ORDER_UPDATE THEN handleOrderUpdate(db, m, dbUp)
  ELSE IF m.type = TRADE_PUT THEN handleTradePut(db, m, dbUp)
  ELSE IF m.type = RECEIPT_PUT THEN handleReceiptPut(db, m, dbUp)
  ELSE Failed(db)

\* PgSQLHandler.ackMessage: the calls made on the delivery
ackMessage(ack) == IF ack THEN <<"ack">> ELSE <<"nack">>

\* the result of HandleMessage on the message m: the store, the calls made
\* on the delivery, and whether the store was asked at all
HandleMessageResult(db, m, dbUp) ==
  IF ~FromBytes(m) \/ ~validateMessage(m)
  THEN [db |-> db, err |-> TRUE, asked |-> FALSE,
        calls |-> ackMessage(FALSE)]
  ELSE [db |-> processMessage(db, m, dbUp).db,
        err |-> processMessage(db, m, dbUp).err,
        asked |-> Asks(m),
        calls |-> ackMessage(~processMessage(db, m, dbUp).err)]

\* the state after PgSQLHandler.HandleMessage on the delivery at the head of
\* the queue, which returned r.  linkUp tells whether the ack or nack reached
\* the broker: an ack that did takes the message off the queue; after a nack
\* with requeue, or a call that was lost, the broker delivers the message
\* again, and with a prefetch of 1 it is the next delivery.
HandleMessageState(s, r, dbUp, linkUp) ==
  [s EXCEPT !.pgdb = r.db,
            !.seen = Append(s.seen, Head(s.bus)),
            !.acks = Append(s.acks,
                       [calls |-> r.calls, err |-> r.err,
                        dbUp |-> dbUp \/ ~r.asked,
                        lost |-> ~linkUp /\ r.calls = <<"ack">>]),
            !.bus = IF r.calls = <<"ack">> /\ linkUp
                    THEN Tail(s.bus) ELSE s.bus]

\* ---- actions: one caller at a time
\* one call of OrderHandler.CreateOrder with the order o under a fresh id
CreateOrder ==
  \E o \in HandlerOrders(Submitters) :
    \E dbOpen \in BOOLEAN : \E outcome \in Outcomes :
      /\ steps < MaxCalls
      /\ Become(CreateOrderState(Cur, WithId(o, nextId),
                  Process(CurEngine, WithId(o, nextId)), dbOpen, outcome))

\* one call of OrderHandler.CancelOrder on an id that was submitted before
CancelOrderCall ==
  \E id \in 1..(nextId - 1) :
    \E dbOpen \in BOOLEAN : \E outcome \in Outcomes :
      /\ steps < MaxCalls
      /\ Become(CancelOrderState(Cur, id, dbOpen, outcome))

\* one PUT of an order: new quantity and price for an id submitted before
UpdateOrderCall ==
  \E id \in 1..(nextId - 1) : \E qty \in Qtys : \E price \in Prices :
    \E dbOpen \in BOOLEAN : \E outcome \in Outcomes :
      /\ steps < MaxCalls
      /\ Become(UpdateOrderState(Cur, id, qty, price, dbOpen, outcome))

\* one call of TradeHandler.CreateTrade
CreateTrade ==
  \E t \in TradeOrders : \E dbOpen \in BOOLEAN : \E outcome \in Outcomes :
    /\ steps < MaxCalls
    /\ Become(CreateTradeState(Cur, t, validateTrade(t), dbOpen, outcome))

\* one call of ReceiptHandler.CreateReceipt
CreateReceipt ==
  \E r \in Receipts : \E dbOpen \in BOOLEAN : \E outcome \in Outcomes :
    /\ steps < MaxCalls
    /\ Become(CreateReceiptState(Cur, r, dbOpen, outcome))

\* a message of another publisher arrives in the queue
ForeignPublish ==
  \E m \in ForeignMessages :
    /\ steps < MaxCalls
    /\ Become([Cur EXCEPT !.steps = steps + 1, !.bus = Append(bus, m)])

\* the consumer loop takes the next delivery
HandleMessage ==
  \E dbUp, linkUp \in BOOLEAN :
    /\ bus # <<>>
    /\ Len(seen) < MaxSeen
    /\ Become(HandleMessageState(Cur,
                HandleMessageResult(pgdb, Head(bus), dbUp), dbUp, linkUp))

NextEvents ==
  \/ CreateOrder
  \/ CancelOrderCall
  \/ UpdateOrderCall
  \/ CreateTrade
  \/ CreateReceipt
  \/ ForeignPublish
  \/ HandleMessage

SpecEvents == Init /\ [][NextEvents]_vars

\* ---- a start with a partly filled order
\* calls of CreateOrder made before the start: a buy of 2 and a sell of 1 that
\* fills half of it
SeedCalls ==
  << NewLimitOrder(Buy, 2, 1, GTC, 1), NewLimitOrder(Sell, 1, 1, GTC, 2) >>

\* the calls of seq made one after the other on s, store and broker working
RECURSIVE RunCalls(_, _)
RunCalls(s, seq) ==
  IF seq = <<>> THEN s
  ELSE RunCalls(CreateOrderState(s, WithId(Head(seq), s.nextId),
                  Process(EngineOf(s), WithId(Head(seq), s.nextId)),
                  TRUE, "ack"),
                Tail(seq))

InitPartial == Start([RunCalls(NewOrderBook, SeedCalls) EXCEPT !.steps = 0])

SpecPartial == InitPartial /\ [][NextEvents]_vars

\* ---- actions: NumThreads request goroutines, each inside one handler call
\* goroutine t enters CreateOrder and gets the result of ob.Process
BeginCreateOrder(t) ==
  \E o \in HandlerOrders(Submitters) :
    /\ steps < MaxCalls
    /\ calls[t].pc = "idle"
    /\ Become(Processed(Cur, t, WithId(o, nextId),
                        Process(CurEngine, WithId(o, nextId))))

\* goroutine t enters CancelOrder and gets the result of ob.GetOrder
BeginCancelOrder(t) ==
  \E id \in 1..(nextId - 1) :
    /\ steps < MaxCalls
    /\ calls[t].pc = "idle"
    /\ Become(GotOrder(Cur, t, id))

\* goroutine t gets the result of ob.CancelOrder
DoCancelOrder(t) ==
  /\ calls[t].pc = "CancelOrder"
  /\ Become(Cancelled(Cur, t))

\* goroutine t gets the result of KvDB.PutOrder
DoPutOrder(t) ==
  \E dbOpen \in BOOLEAN :
    /\ calls[t].pc = "PutOrder"
    /\ Become(PutOrderDone(Cur, t, dbOpen))

\* goroutine t publishes and returns
DoPublish(t) ==
  \E outcome \in Outcomes :
    /\ calls[t].pc = "Publish"
    /\ Become(Published(Cur, t, outcome))

NextConcurrent ==
  \/ \E t \in Threads : BeginCreateOrder(t)
  \/ \E t \in Threads : BeginCancelOrder(t)
  \/ \E t \in Threads : DoCancelOrder(t)
  \/ \E t \in Threads : DoPutOrder(t)
  \/ \E t \in Threads : DoPublish(t)
  \/ HandleMessage

SpecConcurrent == Init /\ [][NextConcurrent]_vars

\* ------------------------------------------------------------------ claims
Added == last.op = "add" /\ ~last.err

FillIdx == 1..Len(last.fills)

BookSide(side) == IF side = Buy THEN bids ELSE asks

C2_NoSelfMatch ==
  Added =>
    /\ \A i \in FillIdx : last.fills[i].takerUser # last.fills[i].makerUser
    /\ \A k \in 1..(Len(last.done.trades) \div 2) :
         last.done.trades[2 * k - 1].user # last.done.trades[2 * k].user
    /\ \A j \in 1..Len(last.selfCancels) :
         LET sc == last.selfCancels[j]
         IN  /\ ~InBook(CurEngine, sc.maker)
             /\ sc.maker \in last.canceled
             /\ \A i \in FillIdx :
                  ~(last.fills[i].taker = sc.taker /\ last.fills[i].maker = sc.maker)

\* a taker that met its own order at the head of the best level, had it
\* cancelled, and then traded with another user's order
C2_Witness ==
  /\ Added
  /\ \E j \in 1..Len(last.selfCancels) : \E i \in FillIdx :
       last.fills[i].taker = last.selfCancels[j].taker

\* C3 -- Price-time priority: a maker is filled only when no order that came
\* to rest earlier is live at its price; the queue of a level is in arrival
\* order; a maker that was filled and still rests is the head of its level.
C3_PriceTimePriority ==
  /\ \A i \in FillIdx :
       LET f == last.fills[i]
       IN  /\ \A x \in f.levelSeqs : f.makerSeq <= x
           /\ InBook(CurEngine, f.maker) =>
                Head(LevelAt(ord, BookSide(ord[f.maker].side), ord[f.maker].price))
                  = f.maker
  /\ \A side \in {Buy, Sell} :
       \A i, j \in 1..Len(BookSide(side)) :
         LET a == ord[BookSide(side)[i]]
             b == ord[BookSide(side)[j]]
         IN  i < j /\ a.price = b.price => a.seq < b.seq

\* one taker filled two makers of one level, the earlier arrival first
C3_Witness ==
  /\ Added
  /\ \E i, j \in FillIdx :
       /\ i < j
       /\ last.fills[i].taker = last.fills[j].taker
       /\ last.fills[i].price = last.fills[j].price
       /\ last.fills[i].maker # last.fills[j].maker
       /\ last.fills[i].makerSeq < last.fills[j].makerSeq

\* C4 -- Best price first: every fill is at the best price among the live
\* orders of the opposing side: the lowest ask for a buy taker, the highest
\* bid for a sell taker.
C4_BestPriceFirst ==
  \A i \in FillIdx :
    LET f == last.fills[i]
    IN  \A p \in f.oppPrices :
          IF f.side = Buy THEN f.price <= p ELSE f.price >= p

\* a fill made while the opposing side held two price levels
C4_Witness ==
  /\ Added
  /\ \E i \in FillIdx : Cardinality(last.fills[i].oppPrices) >= 2

\* C5 -- Limit price: a limit buy at L never trades above L and a limit sell
\* at L never trades below L.
C5_LimitPrice ==
  \A i \in FillIdx :
    LET f == last.fills[i]
    IN  f.takerKind = Limit =>
          IF f.side = Buy THEN f.price <= f.takerLimit
                          ELSE f.price >= f.takerLimit

\* a limit buy traded at a price within its limit, then stopped at a level
\* beyond its limit and came to rest
C5_Witness ==
  /\ Added /\ last.order.kind = Limit /\ last.order.side = Buy
  /\ last.fills # <<>> /\ last.done.stored
  /\ asks # <<>> /\ ord[Head(asks)].price > last.order.price

RECURSIVE SumQty(_)
SumQty(trades) ==
  IF trades = <<>> THEN 0 ELSE Head(trades).qty + SumQty(Tail(trades))

TradesFor(trades, id) == SelectSeq(trades, LAMBDA t : t.order = id)

ReceiptsFor(rs, id) == { k \in 1..Len(rs) : rs[k].order = id }

\* C6 -- Cache coherence: after every AddOrder or RemoveOrder, every entry of
\* the BuyerCache has left = original - (sum of the quantities of the trades
\* accumulated in the entry) and left > 0.
C6_CacheCoherence ==
  \A i \in 1..Len(bc) :
    /\ bc[i].left = ord[bc[i].order].orig - SumQty(bc[i].trades)
    /\ bc[i].left > 0

\* a resting buy whose entry has accumulated a trade and is still open
C6_Witness ==
  /\ Added /\ last.order.side = Sell
  /\ \E i \in 1..Len(bc) :
       /\ bc[i].trades # <<>>
       /\ bc[i].left < ord[bc[i].order].orig
       /\ InBook(CurEngine, bc[i].order)

\* C7 -- Receipt uniqueness: over the whole run at most one receipt is emitted
\* for a given (user_id, order_id), and none for a FOK order that did not fill.
C7_ReceiptUniqueness ==
  /\ \A i, j \in 1..Len(receiptLog) : receiptLog[i] = receiptLog[j] => i = j
  /\ \A i \in 1..Len(receiptLog) : receiptLog[i][2] \notin fokUnfilled

\* a FOK buy that did not fill, submitted after a receipt had been emitted,
\* and a second receipt of another order
C7_Witness ==
  /\ fokUnfilled # {}
  /\ Len(receiptLog) >= 2
  /\ \E i \in fokUnfilled : BcHas(bc, i)

\* C8 -- Coalescing: a sell that fills a cached buy and leaves its cached left
\* above 0 yields no receipt for it and keeps the entry, with the trade added;
\* the sell that brings the cached left to 0 yields exactly one receipt for
\* that buy, with filled_qty = its original quantity and all the trades
\* accumulated for it, and the entry is removed.
C8_Coalescing ==
  [][ (last'.op = "add" /\ ~last'.err /\ last'.order.side = Sell
         /\ steps' = steps + 1) =>
      \A i \in 1..Len(bc) :
        LET pos == bc[i]
            id  == pos.order
            new == TradesFor(last'.done.trades, id)
            rs  == ReceiptsFor(last'.receipts, id)
        IN  new # <<>> =>
              IF pos.left - SumQty(new) > 0
              THEN /\ rs = {}
                   /\ BcHas(bc', id)
                   /\ BcPos(bc', id).left = pos.left - SumQty(new)
                   /\ BcPos(bc', id).trades = pos.trades \o new
              ELSE /\ Cardinality(rs) = 1
                   /\ ~BcHas(bc', id)
                   /\ \A k \in rs :
                        /\ last'.receipts[k].filled = ord[id].orig
                        /\ last'.receipts[k].user = ord[id].user
                        /\ \E n \in 1..Len(new) :
                             /\ last'.receipts[k].trades
                                  = pos.trades \o SubSeq(new, 1, n)
                             /\ pos.left - SumQty(SubSeq(new, 1, n)) <= 0
                             /\ pos.left - SumQty(SubSeq(new, 1, n - 1)) > 0
    ]_vars

\* the second of two sells completed a resting buy: its receipt carries the
\* trade of the first sell and the trade of this one
C8_Witness ==
  /\ Added /\ last.order.side = Sell
  /\ Len(last.done.trades) = 2
  /\ \E k \in 1..Len(last.receipts) :
       /\ Len(last.receipts[k].trades) = 2
       /\ last.receipts[k].filled = 2
       /\ ~BcHas(bc, last.receipts[k].order)

\* C9 -- Cancel refused: RemoveOrder on an id whose BuyerCache entry has
\* left < original returns an error and changes neither the book nor the
\* entry: an order that was resting is still resting, and the entry is still
\* present with the same left.
C9_PartialFillCannotCancel ==
  [][ (last'.op = "remove" /\ steps' = steps + 1
         /\ BcHas(bc, last'.id)
         /\ BcPos(bc, last'.id).left < ord[last'.id].orig) =>
      /\ last'.err
      /\ UNCHANGED <<ord, bids, asks, bstops, sstops>>
      /\ InBook(CurEngine, last'.id) =>
           InBook(Engine(ord', bids', asks', bstops', sstops', clock'), last'.id)
      /\ BcHas(bc', last'.id)
      /\ BcPos(bc', last'.id) = BcPos(bc, last'.id)
    ]_vars

\* the cancel of a resting, partly filled buy was refused
C9_Witness ==
  /\ last.op = "remove" /\ last.err
  /\ InBook(CurEngine, last.id)
  /\ BcHas(bc, last.id)
  /\ BcPos(bc, last.id).left < ord[last.id].orig
  /\ ord[last.id].rem = BcPos(bc, last.id).left

\* C10 -- Market buy: every accepted market buy yields exactly one receipt,
\* addressed to the taker's user id and order id, with filled_qty equal to
\* Done.processed, whether it filled fully, partly or not at all.
C10_MarketBuyReceipt ==
  (Added /\ last.order.kind = Market /\ last.order.side = Buy) =>
    /\ Len(last.receipts) = 1
    /\ last.receipts[1].user = last.order.user
    /\ last.receipts[1].order = last.id
    /\ last.receipts[1].filled = last.done.processed
    /\ last.receipts[1].trades = last.done.trades

\* a market buy that the book could fill only in part
C10_Witness ==
  /\ Added /\ last.order.kind = Market /\ last.order.side = Buy
  /\ last.done.processed > 0 /\ last.done.left > 0
  /\ Len(last.receipts) = 1

\* the counterparty entries of the trades the submitted order made itself
RECURSIVE OwnTrades(_, _)
OwnTrades(fills, id) ==
  IF fills = <<>> THEN <<>>
  ELSE (IF Head(fills).taker = id
        THEN << [order |-> Head(fills).maker, user |-> Head(fills).makerUser,
                 role |-> MAKER, price |-> Head(fills).price,
                 qty |-> Head(fills).qty] >>
        ELSE <<>>) \o OwnTrades(Tail(fills), id)

LimitBuyAdded == Added /\ last.order.kind = Limit /\ last.order.side = Buy

\* C11 -- Partial rest: a limit buy that did not fill in full on entry and
\* came to rest (processed < original, stored, resting in the book) yields no
\* receipt, and the BuyerCache holds an entry under its id with
\* left = original - processed and the trades of that submission.
C11_PartialRestCached ==
  (LimitBuyAdded /\ last.done.processed < last.order.orig /\ last.done.stored
     /\ InBook(CurEngine, last.id)) =>
    /\ last.receipts = <<>>
    /\ BcHas(bc, last.id)
    /\ BcPos(bc, last.id).left = last.order.orig - last.done.processed
    /\ BcPos(bc, last.id).trades = OwnTrades(last.fills, last.id)

SellStep == last'.op = "add" /\ ~last'.err /\ last'.order.side = Sell
              /\ steps' = steps + 1

\* the resting buyers the fills of the step filled in full
FilledInStep ==
  { id \in Ids :
      /\ \E i \in 1..Len(bids) : bids[i] = id
      /\ \E i \in 1..Len(last'.fills) :
           last'.fills[i].maker = id /\ last'.fills[i].makerLeft = 0 }

\* the cached buyers whose left the trades of the step bring to 0
CompletedInStep ==
  { id \in Ids :
      /\ BcHas(bc, id)
      /\ TradesFor(last'.done.trades, id) # <<>>
      /\ BcPos(bc, id).left - SumQty(TradesFor(last'.done.trades, id)) <= 0 }

\* C12 as stated -- Sell receipts: a sell yields one receipt for each resting
\* buyer it filled in full, with filled_qty = that buyer's original quantity,
\* and no receipt for any other order.
C12_SellReceiptsEveryBuyer ==
  [][ SellStep =>
        /\ \A id \in FilledInStep :
             /\ Cardinality(ReceiptsFor(last'.receipts, id)) = 1
             /\ \A k \in ReceiptsFor(last'.receipts, id) :
                  last'.receipts[k].filled = ord[id].orig
        /\ \A k \in 1..Len(last'.receipts) :
             last'.receipts[k].order \in FilledInStep
    ]_vars

\* C12 as amended -- Sell receipts: a sell yields one receipt for each resting
\* buyer that has a BuyerCache entry whose left the trades of this sell bring
\* to 0, with filled_qty = that buyer's original quantity, its user id and the
\* trades accumulated in the entry, and no receipt for any other order: a
\* buyer filled in full whose entry is not in the cache gets none.
C12_SellReceiptsCachedBuyers ==
  [][ SellStep =>
        /\ \A id \in CompletedInStep :
             /\ Cardinality(ReceiptsFor(last'.receipts, id)) = 1
             /\ \A k \in ReceiptsFor(last'.receipts, id) :
                  /\ last'.receipts[k].filled = ord[id].orig
                  /\ last'.receipts[k].user = ord[id].user
                  /\ \E n \in 1..Len(TradesFor(last'.done.trades, id)) :
                       last'.receipts[k].trades =
                         BcPos(bc, id).trades
                           \o SubSeq(TradesFor(last'.done.trades, id), 1, n)
        /\ \A k \in 1..Len(last'.receipts) :
             last'.receipts[k].order \in CompletedInStep
        /\ \A id \in FilledInStep \ CompletedInStep :
             ReceiptsFor(last'.receipts, id) = {}
    ]_vars

\* one sell completed two cached buyers and filled a third, evicted one: two
\* receipts
C12_Witness ==
  /\ Added /\ last.order.side = Sell
  /\ Len(last.receipts) = 2
  /\ last.receipts[1].order # last.receipts[2].order
  /\ \E i \in 1..Len(last.fills) :
       /\ last.fills[i].makerLeft = 0
       /\ \A k \in 1..Len(last.receipts) :
            last.receipts[k].order # last.fills[i].maker

\* C13 -- IOC: a limit buy with TIF IOC that fills only in part yields
\* exactly one receipt, for that order, with filled_qty = processed, and its
\* residual is discarded (stored = false, not in the book).
C13_IOCPartialReceipt ==
  (LimitBuyAdded /\ last.order.tif = IOC
     /\ 0 < last.done.processed /\ last.done.processed < last.order.orig) =>
    /\ Len(last.receipts) = 1
    /\ last.receipts[1].order = last.id
    /\ last.receipts[1].filled = last.done.processed
    /\ ~last.done.stored
    /\ ~InBook(CurEngine, last.id)

\* what the opposing side offers a limit order o within its price
Offered(o) ==
  SumRem(ord, SelectSeq(IF o.side = Buy THEN asks ELSE bids,
                        LAMBDA x : IF o.side = Buy
                                   THEN ord[x].price <= o.price
                                   ELSE ord[x].price >= o.price))

\* C14 -- FOK: a limit FOK order that the opposing levels within its price
\* cannot fill in full makes no trade: Done reports processed 0,
\* left = original, stored = false; no receipt is emitted and the book (side
\* books, StopTable, resting orders) is unchanged.
C14_FOKNoFill ==
  [][ (last'.op = "add" /\ ~last'.err /\ steps' = steps + 1
         /\ last'.order.kind = Limit /\ last'.order.tif = FOK
         /\ Offered(last'.order) < last'.order.orig) =>
        /\ last'.done.processed = 0
        /\ last'.done.left = last'.order.orig
        /\ ~last'.done.stored
        /\ last'.done.trades = <<>>
        /\ last'.fills = <<>>
        /\ last'.receipts = <<>>
        /\ UNCHANGED <<bids, asks, bstops, sstops>>
        /\ \A i \in Ids : InBook(CurEngine, i) => ord'[i] = ord[i]
    ]_vars

\* a FOK buy for 2 met an ask for 1 within its price and left it untouched
C14_Witness ==
  /\ LimitBuyAdded /\ last.order.tif = FOK /\ last.order.orig = 2
  /\ last.done.processed = 0 /\ last.receipts = <<>>
  /\ asks # <<>>
  /\ ord[Head(asks)].price <= last.order.price
  /\ ord[Head(asks)].rem = 1

\* C15 -- Cache keys: in every state, every entry of the BuyerCache is keyed
\* by the id of a limit buy that is resting in the bid side of the book.
C15_CacheOnlyResting ==
  \A i \in 1..Len(bc) :
    /\ \E k \in 1..Len(bids) : bids[k] = bc[i].order
    /\ ord[bc[i].order].kind = Limit
    /\ ord[bc[i].order].side = Buy
    /\ ~ord[bc[i].order].canceled

\* id rests in a price level of the book
Resting(id) == \E i \in 1..Len(bids \o asks) : (bids \o asks)[i] = id

\* C16 -- Cancel: RemoveOrder on a resting order that has no partial fill in
\* flight (no BuyerCache entry with left < original) returns the order without
\* error, marked cancelled, and the order is gone from its price level and
\* from the BuyerCache; and in every call only orders that were in the book,
\* the StopTable or the call itself are matched, so a cancelled order is never
\* matched by a later taker.
C16_CancelResting ==
  [][ /\ (last'.op = "remove" /\ steps' = steps + 1 /\ Resting(last'.id)
            /\ ~(BcHas(bc, last'.id)
                   /\ BcPos(bc, last'.id).left < ord[last'.id].orig)) =>
           /\ ~last'.err
           /\ last'.found
           /\ last'.order = ord[last'.id]
           /\ last'.id \in last'.canceled
           /\ ~InBook(Engine(ord', bids', asks', bstops', sstops', clock'),
                      last'.id)
           /\ ~BcHas(bc', last'.id)
      /\ (last'.op = "add" /\ steps' = steps + 1) =>
           \A i \in 1..Len(last'.fills) :
             \/ InBook(CurEngine, last'.fills[i].maker)
             \/ last'.fills[i].maker = last'.id
    ]_vars

\* an unfilled resting buy was cancelled: it left the book and the cache
C16_Witness ==
  /\ last.op = "remove" /\ ~last.err /\ last.found
  /\ last.order.kind = Limit /\ last.order.side = Buy
  /\ last.order.rem = last.order.orig
  /\ last.id \in last.canceled
  /\ ~InBook(CurEngine, last.id)
  /\ ~BcHas(bc, last.id)

\* C17 -- Rejection: a submission whose order is already cancelled, has an
\* original quantity <= 0, or carries the id of an order of the book returns an
\* error and no receipts, and leaves the side books, the StopTable and the
\* BuyerCache unchanged.
C17_Rejected ==
  [][ (last'.op = "add" /\ steps' = steps + 1
         /\ (\/ last'.order.canceled
             \/ last'.order.orig <= 0
             \/ InBook(CurEngine, last'.id))) =>
        /\ last'.err
        /\ last'.receipts = <<>>
        /\ UNCHANGED <<ord, bids, asks, bstops, sstops, bc, receiptLog>>
    ]_vars

\* a market buy under the id of a resting, cached buy was rejected while an
\* ask it could have traded with was resting
C17_Witness ==
  /\ last.op = "add" /\ last.err
  /\ last.order.kind = Market
  /\ InBook(CurEngine, last.id)
  /\ BcHas(bc, last.id)
  /\ asks # <<>>

\* a call inserted a new id into a full cache
InsertFull ==
  /\ steps' = steps + 1
  /\ Len(bc) = Capacity(BCSize)
  /\ \E i \in 1..Len(bc') : ~BcHas(bc, bc'[i].order)

\* the ids that were in the cache before the call and are not after it
Gone == { bc[i].order : i \in { k \in 1..Len(bc) : ~BcHas(bc', bc[k].order) } }

\* C18 as stated -- Capacity: the cache never holds more entries than its
\* capacity (50000 for a book created with size 0); inserting a new id into a
\* full cache evicts exactly one entry, the one least recently inserted or
\* updated.
C18_EvictsLeastRecentlyWritten ==
  [][ /\ Capacity(0) = 50000
      /\ Len(bc) <= Capacity(BCSize) /\ Len(bc') <= Capacity(BCSize)
      /\ InsertFull => Gone = { written[Len(written)] }
    ]_vars

\* C18 as amended -- Capacity: the cache never holds more entries than its
\* capacity (50000 for a book created with size 0); inserting a new id into a
\* full cache evicts exactly one entry, the least recently used one: the one
\* least recently inserted, updated or looked up (a refused RemoveOrder looks
\* its entry up).
C18_EvictsLeastRecentlyUsed ==
  [][ /\ Capacity(0) = 50000
      /\ Len(bc) <= Capacity(BCSize) /\ Len(bc') <= Capacity(BCSize)
      /\ InsertFull => Gone = { used[Len(used)] }
    ]_vars

\* buy 1 was last updated by sell 2, buy 3 came after; a refused RemoveOrder
\* looked buy 1 up, and the insert of buy 4 evicted buy 3, not buy 1
C18_Witness ==
  /\ LimitBuyAdded /\ last.id = 4
  /\ 3 \in evicted
  /\ BcHas(bc, 1) /\ BcPos(bc, 1).trades # <<>>
  /\ BcHas(bc, 4)
  /\ Len(bc) = Capacity(BCSize)

\* C19 -- Silent eviction: the call in which the LRU evicts the entry of a
\* resting limit buy returns no error and no receipt for that buy, and no call
\* from then on yields a receipt for it, whatever fills it.
C19_SilentEviction ==
  [][ steps' = steps + 1 =>
        /\ evicted' # evicted => ~last'.err
        /\ \A k \in 1..Len(last'.receipts) :
             last'.receipts[k].order \notin evicted'
    ]_vars

\* a sell filled an evicted buy in full and no receipt came for it
C19_Witness ==
  /\ Added /\ last.order.side = Sell
  /\ \E i \in 1..Len(last.fills) :
       /\ last.fills[i].maker \in evicted
       /\ last.fills[i].makerLeft = 0
       /\ ReceiptsFor(last.receipts, last.fills[i].maker) = {}


\* C20: the consumer sees the ORDER_PUT of an order id before any TRADE_PUT
\* that names the id, and no TRADE_PUT of an id after the RECEIPT_PUT of it
\* (of the events the handlers published).
C20_EventOrder ==
  \A j \in 1..Len(seen) :
    (seen[j].type = TRADE_PUT /\ seen[j].mid > 0) =>
      /\ \E i \in 1..(j - 1) :
           seen[i].type = ORDER_PUT /\ seen[i].id = seen[j].id
      /\ \A i \in 1..(j - 1) :
           ~(seen[i].type = RECEIPT_PUT /\ seen[i].id = seen[j].id)

\* where the submission of the order id stands among the operations applied
\* to the book
AppliedPos(id) ==
  CHOOSE k \in 1..Len(applied) : applied[k] = [op |-> "CreateOrder", id |-> id]

\* C21: the events of concurrent submissions reach the consumer in the order
\* in which the submissions were applied to the book: of two ORDER_PUT the
\* consumer sees, the first seen is of the order that was applied first.
C21_EventsInAppliedOrder ==
  \A i, j \in 1..Len(seen) :
    (/\ i < j
     /\ seen[i].type = ORDER_PUT /\ seen[j].type = ORDER_PUT
     /\ seen[i].mid > 0 /\ seen[j].mid > 0
     /\ seen[i].id # seen[j].id)
    => AppliedPos(seen[i].id) < AppliedPos(seen[j].id)

\* the Sends made by the step
NewSends == SubSeq(sends', Len(sends) + 1, Len(sends'))

\* how many of the Sends of the step carry a message of the type
SendsOf(type) ==
  Cardinality({ i \in 1..Len(NewSends) : NewSends[i].msg.type = type })

\* the step is a call of CreateOrder that the book accepted and that returned
\* without error
CreatedInStep ==
  /\ Len(applied') = Len(applied) + 1
  /\ applied'[Len(applied')].op = "CreateOrder"
  /\ last'.op = "CreateOrder" /\ ~last'.err

\* C22: a submission that is accepted hands the producer one ORDER_PUT for
\* the order, one TRADE_PUT for each trade of its Done and one RECEIPT_PUT
\* for each receipt derived from it.
C22_OneEventPerTransition ==
  [][CreatedInStep =>
       /\ SendsOf(ORDER_PUT) = 1
       /\ NewSends[1].msg.id = last'.id
       /\ SendsOf(TRADE_PUT) = Len(last'.done.trades)
       /\ SendsOf(RECEIPT_PUT) = Len(last'.receipts)]_vars

\* the step is a delivery to the consumer
Delivery == Len(seen') = Len(seen) + 1

\* the message of the delivery was delivered before and applied then
Redelivery ==
  /\ Delivery
  /\ seen'[Len(seen')].mid > 0
  /\ \E i \in 1..Len(seen) : seen[i] = seen'[Len(seen')] /\ ~acks[i].err

\* C23: a TRADE_PUT or RECEIPT_PUT that was applied and is delivered again
\* leaves the store as it was, creating no row, and, the store answering, is
\* acknowledged.
C23_TradeReceiptRedelivery ==
  [][(Redelivery /\ seen'[Len(seen')].type \in {TRADE_PUT, RECEIPT_PUT}) =>
       /\ pgdb' = pgdb
       /\ (acks'[Len(acks')].dbUp => acks'[Len(acks')].calls = <<"ack">>)]_vars

\* C24: an ORDER_PUT that was applied and is delivered again leaves the
\* store as it was, the order row being there once, and, the store
\* answering, is acknowledged.
C24_OrderPutRedelivery ==
  [][(Redelivery /\ seen'[Len(seen')].type = ORDER_PUT) =>
       /\ pgdb' = pgdb
       /\ seen'[Len(seen')].id \in pgdb'.orders
       /\ (acks'[Len(acks')].dbUp => acks'[Len(acks')].calls = <<"ack">>)]_vars

\* an ORDER_PUT is delivered a second time with the store up, after the
\* acknowledgement of the first delivery was lost
C24_Witness ==
  /\ Len(seen) >= 2
  /\ seen[Len(seen)].type = ORDER_PUT /\ seen[Len(seen)].mid > 0
  /\ seen[Len(seen) - 1] = seen[Len(seen)]
  /\ ~acks[Len(acks) - 1].err /\ acks[Len(acks) - 1].lost
  /\ acks[Len(acks)].dbUp /\ acks[Len(acks)].calls = <<"ack">>
  /\ pgdb.orders = {seen[Len(seen)].id}

\* the store holds what the message asks for
AppliedTo(db, m) ==
  IF m.type \in {ORDER_PUT, ORDER_UPDATE} THEN m.id \in db.orders
  ELSE IF m.type = ORDER_DELETE THEN m.id \notin db.orders
  ELSE IF m.type = TRADE_PUT
    THEN \E i \in 1..Len(db.trades) : db.trades[i] = m.id
  ELSE IF m.type = RECEIPT_PUT
    THEN \E i \in 1..Len(db.receipts) : db.receipts[i] = m.id
  ELSE FALSE

\* the delivery cannot be applied: it does not decode, its type is unknown,
\* it fails validation, or the store does not answer
CannotApply(m, a) ==
  \/ ~FromBytes(m) \/ ~validateMessage(m)
  \/ ~Asks(m)
  \/ ~a.dbUp

\* C25: on every delivery the consumer makes exactly one call, ack or nack;
\* it acks only when the message has been applied to the store; and when the
\* message does not decode, has an unknown type, fails validation or the
\* store fails, it nacks and the message is queued again.
C25_AckAfterApply ==
  [][Delivery =>
       /\ Len(acks'[Len(acks')].calls) = 1
       /\ acks'[Len(acks')].calls[1] \in {"ack", "nack"}
       /\ (acks'[Len(acks')].calls = <<"ack">>
             => AppliedTo(pgdb', seen'[Len(seen')]))
       /\ (CannotApply(seen'[Len(seen')], acks'[Len(acks')])
             => /\ acks'[Len(acks')].calls = <<"nack">>
                /\ pgdb' = pgdb
                /\ bus' = bus)]_vars

\* the step is a call of CreateOrder whose publish did not get the message
\* to the broker
PublishFailedInStep ==
  /\ last'.op = "CreateOrder"
  /\ steps' = steps + 1
  /\ Len(sends') = Len(sends) + 1
  /\ sends'[Len(sends')].outcome # "ack"

\* the book after the step is the book Process returned as p
Retained(p) ==
  /\ ~p.err
  /\ ord' = Forget(p.e, bc).ord
  /\ bids' = p.e.bids /\ asks' = p.e.asks
  /\ bstops' = p.e.bstops /\ sstops' = p.e.sstops

\* C26: a submission whose publish fails still returns success, and the book
\* keeps what the submission did to it.
C26_PublishFailureKeepsSubmission ==
  [][PublishFailedInStep =>
       /\ ~last'.err
       /\ Retained(Process(CurEngine, last'.order))
       /\ <<"order", last'.id>> \in kvdb'
       /\ bus' = bus]_vars

\* a submission that came to rest although the broker could not be reached
C26_Witness ==
  /\ last.op = "CreateOrder" /\ ~last.err
  /\ sends # <<>>
  /\ sends[Len(sends)].outcome = "err" /\ sends[Len(sends)].err
  /\ sends[Len(sends)].msg.id = last.id
  /\ InBook(CurEngine, last.id)
  /\ bus = <<>>

\* the message is held by the broker's queue or has been handed to the consumer
QueuedOrDelivered(msg) ==
  \/ \E i \in 1..Len(bus) : bus[i] = msg
  \/ \E j \in 1..Len(seen) : seen[j] = msg

\* C27: a publish that returned success was confirmed by the broker, so its
\* event is queued for the consumer or has been delivered to it.
C27_SuccessMeansConfirmed ==
  \A i \in 1..Len(sends) :
    ~sends[i].err => QueuedOrDelivered(sends[i].msg)

\* the orders parked in a StopTable
StopsOf(bs, ss) ==
  { bs[i] : i \in 1..Len(bs) } \cup { ss[i] : i \in 1..Len(ss) }

\* the step is a submission the engine accepted
SubmissionStep == last'.op = "add" /\ steps' = steps + 1 /\ ~last'.err

\* the price p satisfies the trigger of the parked stop id
TriggerPrice(id, p) ==
  IF ord[id].side = Buy THEN p >= ord[id].stop ELSE p <= ord[id].stop

\* the matches of the step in which id was the taker
FillsOf(id) == SelectSeq(last'.fills, LAMBDA f : f.taker = id)

\* the prices that were the last trade price when a taker's processing ended
LastPrices ==
  { last'.fills[i].price :
      i \in { j \in 1..Len(last'.fills) :
                j = Len(last'.fills)
                  \/ last'.fills[j + 1].taker # last'.fills[j].taker } }

\* the parked stop id left the StopTable in the step
Activated(id) == id \notin StopsOf(bstops', sstops')

\* the activated stop id acted as a limit order at its stored limit price
AsFreshLimit(id) ==
  /\ \A i \in 1..Len(FillsOf(id)) :
       /\ FillsOf(id)[i].takerKind = Limit
       /\ FillsOf(id)[i].takerLimit = ord[id].price
       /\ ~Worse(ord[id].side, FillsOf(id)[i].price, ord[id].price)
  /\ InBook(Engine(ord', bids', asks', bstops', sstops', clock'), id) =>
       /\ ord'[id].kind = Limit /\ ord'[id].price = ord[id].price
       /\ \E i \in 1..Len(IF ord[id].side = Buy THEN bids' ELSE asks') :
            (IF ord[id].side = Buy THEN bids' ELSE asks')[i] = id

\* the stop id is as it was parked: no trade, no receipt, nothing filled
StillParked(id) ==
  /\ ord'[id] = ord[id] /\ ord[id].kind = Stop /\ ord[id].rem = ord[id].orig
  /\ \A i \in 1..Len(last'.done.trades) : last'.done.trades[i].order # id
  /\ \A i \in 1..Len(last'.fills) :
       last'.fills[i].taker # id /\ last'.fills[i].maker # id
  /\ \A i \in 1..Len(last'.receipts) : last'.receipts[i].order # id

\* C28: in every submission a parked stop-limit order is activated only if
\* the last trade price of a taker's processing satisfies its trigger, and it
\* is activated if the last trade price of the submitted taker does; an
\* activated stop acts as a limit order at its stored limit price, and a
\* stop that stays parked takes part in no trade and gets no receipt.
C28_StopActivation ==
  [][SubmissionStep =>
       \A id \in StopsOf(bstops, sstops) :
         /\ Activated(id) => \E p \in LastPrices : TriggerPrice(id, p)
         /\ ( /\ FillsOf(last'.id) # <<>>
              /\ TriggerPrice(id, FillsOf(last'.id)[Len(FillsOf(last'.id))].price) )
              => Activated(id)
         /\ Activated(id) => AsFreshLimit(id)
         /\ ~Activated(id) => StillParked(id)]_vars

\* a submission traded at a price that triggered a parked buy stop, which
\* then traded as a limit order
C28_Witness ==
  /\ last.op = "add" /\ ~last.err
  /\ \E i \in 1..Len(last.fills) : \E j \in 1..Len(last.fills) :
       /\ i < j
       /\ last.fills[i].taker = last.id
       /\ last.fills[j].taker # last.id
       /\ last.fills[j].takerKind = Limit
       /\ last.fills[j].taker \notin StopsOf(bstops, sstops)
       /\ ord[last.fills[j].taker].stop > 0
       /\ last.fills[i].price >= ord[last.fills[j].taker].stop

\* the stops the submission may leave in the StopTable: those that were
\* parked, and the submitted order if it is a stop-limit order
MayBeParked ==
  StopsOf(bstops, sstops)
    \cup (IF last'.order.kind = Stop THEN {last'.id} ELSE {})

\* C29: stop activation ends, each pass taking orders out of the StopTable
\* and none putting one back, each activated stop being a taker once; and when
\* a submission that traded returns, no order left in the StopTable is
\* triggered by the last trade price.
C29_ActivationComplete ==
  [][SubmissionStep =>
       /\ StopsOf(bstops', sstops') \subseteq MayBeParked
       /\ \A i \in 1..Len(last'.fills) :
            \/ last'.fills[i].taker = last'.id
            \/ /\ last'.fills[i].taker \in StopsOf(bstops, sstops)
               /\ Activated(last'.fills[i].taker)
       /\ last'.done.trades # <<>> =>
            \A id \in StopsOf(bstops', sstops') :
              ~Triggered(ord', id, LastTradePrice(last'.done.trades))]_vars

\* a cascade: the submission traded at 1, an activated stop then traded at 2,
\* and a buy stop with trigger 2 was activated by that trade and rests
C29_Witness ==
  /\ last.op = "add" /\ ~last.err
  /\ last.fills # <<>>
  /\ last.fills[1].taker = last.id /\ last.fills[1].price = 1
  /\ \E j \in 1..Len(last.fills) :
       last.fills[j].taker # last.id /\ last.fills[j].price = 2
  /\ \E i \in 1..Len(bids) :
       ord[bids[i]].stop = 2 /\ ord[bids[i]].kind = Limit
  /\ bstops = <<>>

\* what the submitted order's own matching left of it
OwnResidual == last'.order.orig - SumQty(FillsOf(last'.id))

\* the submitted order is in a side book or the StopTable after the step
RestsOnReturn ==
  InBook(Engine(ord', bids', asks', bstops', sstops', clock'), last'.id)

\* the submitted order is on its own side at its limit price with quantity q
RestsAtLimit(q) ==
  /\ \E i \in 1..Len(IF last'.order.side = Buy THEN bids' ELSE asks') :
       (IF last'.order.side = Buy THEN bids' ELSE asks')[i] = last'.id
  /\ ord'[last'.id].price = last'.order.price
  /\ ord'[last'.id].rem = q

\* the matches of the step in which the submitted order was the maker
MadeBy == SelectSeq(last'.fills, LAMBDA f : f.maker = last'.id)

\* the self-match guard of a later taker cancelled the submitted order
SelfCancelled ==
  \E i \in 1..Len(last'.selfCancels) : last'.selfCancels[i].maker = last'.id

\* C30 as stated: stored tells whether the submitted order is in the book
\* when the submission returns.
C30_StoredIffResting ==
  [][SubmissionStep => (last'.done.stored <=> RestsOnReturn)]_vars

\* C30: stored tells whether the submitted order came to rest at the end of
\* its own processing.  Market, IOC and FOK orders are never stored and are
\* not in the book on return; a stop-limit order is stored in the StopTable; a
\* GTC limit order is stored exactly when its own matching left a residual,
\* which is put on its side at its limit price, where only the stops the
\* submission activates can have matched it, or cancelled it as a self-match,
\* before the submission returns.
C30_StoredIffRested ==
  [][SubmissionStep =>
       /\ (last'.order.kind = Market \/ last'.order.tif \in {IOC, FOK})
            => ~last'.done.stored
       /\ last'.order.kind = Stop =>
            last'.done.stored /\ last'.id \in StopsOf(bstops', sstops')
       /\ (last'.order.kind = Limit /\ last'.order.tif = GTC) =>
            /\ last'.done.stored <=> OwnResidual > 0
            /\ last'.done.left = OwnResidual
       /\ ~last'.done.stored => ~RestsOnReturn
       /\ (last'.done.stored /\ last'.order.kind = Limit) =>
            /\ \A i \in 1..Len(MadeBy) :
                 /\ MadeBy[i].price = last'.order.price
                 /\ MadeBy[i].taker \in StopsOf(bstops, sstops)
            /\ \A i \in 1..Len(last'.selfCancels) :
                 last'.selfCancels[i].maker = last'.id =>
                   last'.selfCancels[i].taker \in StopsOf(bstops, sstops)
            /\ (~SelfCancelled /\ OwnResidual - SumQty(MadeBy) > 0)
                 => RestsAtLimit(OwnResidual - SumQty(MadeBy))
            /\ (SelfCancelled \/ OwnResidual - SumQty(MadeBy) = 0)
                 => ~RestsOnReturn]_vars

\* a GTC limit order was stored and a stop the submission activated filled
\* its residual, so it is not in the book on return
C30_Witness ==
  /\ last.op = "add" /\ ~last.err
  /\ last.order.kind = Limit /\ last.order.tif = GTC
  /\ last.done.stored /\ last.done.left > 0
  /\ \E i \in 1..Len(last.fills) :
       last.fills[i].maker = last.id
         /\ last.fills[i].price = last.order.price
  /\ ~InBook(CurEngine, last.id)

\* the price at which the maker m of a match of the step was resting: the
\* submitted order rests at the price it was submitted with, any other maker
\* at the price it had before the step
MakerPrice(m) ==
  IF m = last'.id THEN last'.order.price ELSE ord[m].price

\* C31: every match of a submission gives a maker entry and a taker entry,
\* and both carry the price at which the maker was resting, whatever the
\* taker's limit price.
C31_MakerPrice ==
  [][SubmissionStep =>
       /\ Len(last'.done.trades) = 2 * Len(last'.fills)
       /\ \A i \in 1..Len(last'.fills) :
            /\ last'.done.trades[2 * i - 1].role = MAKER
            /\ last'.done.trades[2 * i - 1].order = last'.fills[i].maker
            /\ last'.done.trades[2 * i - 1].price
                 = MakerPrice(last'.fills[i].maker)
            /\ last'.done.trades[2 * i].role = TAKER
            /\ last'.done.trades[2 * i].order = last'.fills[i].taker
            /\ last'.done.trades[2 * i].price
                 = MakerPrice(last'.fills[i].maker)]_vars

\* a limit buy at 2 matched an ask resting at 1, and both entries carry 1
C31_Witness ==
  /\ last.op = "add" /\ ~last.err
  /\ last.order.kind = Limit /\ last.order.side = Buy
  /\ last.order.price = 2
  /\ Len(last.done.trades) = 2
  /\ last.done.trades[1].role = MAKER /\ last.done.trades[1].price = 1
  /\ last.done.trades[2].role = TAKER /\ last.done.trades[2].price = 1
  /\ last.done.trades[2].order = last.id

\* the step is an update, with values the handler accepts, of an order that
\* rests in the book with no fills
UpdateOfResting ==
  /\ last'.op = "UpdateOrder" /\ steps' = steps + 1
  /\ InBook(CurEngine, last'.id)
  /\ ord[last'.id].rem = ord[last'.id].orig
  /\ validateOrder(last'.order)

\* how often the id occurs in the book after the step
TimesInBook(id) ==
  Cardinality({ i \in 1..Len(bids' \o asks' \o bstops' \o sstops') :
                  (bids' \o asks' \o bstops' \o sstops')[i] = id })

\* C32: an update of an order that rests unfilled replaces it in the book:
\* the book takes the new order under the same id, and where it rests it is
\* there once, with the new quantity and price.
C32_UpdateReplaces ==
  [][UpdateOfResting =>
       /\ Len(applied') = Len(applied) + 1
       /\ applied'[Len(applied')] = [op |-> "UpdateOrder", id |-> last'.id]
       /\ TimesInBook(last'.id) <= 1
       /\ TimesInBook(last'.id) = 1 =>
            /\ ord'[last'.id].price = last'.order.price
            /\ ord'[last'.id].orig = last'.order.orig]_vars

\* the step is a call of OrderHandler.CancelOrder
CancelStep == last'.op = "CancelOrder" /\ steps' = steps + 1

\* the side books and the StopTable are what they were before the step
BookUnchanged ==
  /\ bids' = bids /\ asks' = asks /\ bstops' = bstops /\ sstops' = sstops
  /\ ord' = ord

\* C33: CancelOrder on an order that rests in the book with no fills returns
\* that order without error and the order is no longer in the book; on an id
\* that is not in the book it returns an error and changes nothing.
C33_CancelResult ==
  [][CancelStep =>
       /\ (InBook(CurEngine, last'.id)
             /\ ord[last'.id].rem = ord[last'.id].orig) =>
            /\ ~last'.err
            /\ ~InBook(Engine(ord', bids', asks', bstops', sstops', clock'),
                       last'.id)
       /\ ~InBook(CurEngine, last'.id) => (last'.err /\ BookUnchanged)]_vars

\* C34: CancelOrder on an order that rests in the book partly filled is
\* refused, and the order stays in the book as it was.
C34_PartialFillNotCancelled ==
  [][(CancelStep /\ InBook(CurEngine, last'.id)
        /\ ord[last'.id].rem < ord[last'.id].orig) =>
       (last'.err /\ BookUnchanged)]_vars

\* the step is a call of CreateOrder whose order the book accepted
ReachedBook ==
  /\ last'.op = "CreateOrder" /\ steps' = steps + 1
  /\ Len(applied') = Len(applied) + 1

\* the cache and the receipts after the step are those of the AddOrder
\* result r
SameAsAddOrder(r) ==
  /\ ~r.err
  /\ bc' = r.bc
  /\ last'.receipts = r.receipts

\* C35: a submission through CreateOrder that reaches the book leaves the
\* BuyerCache and yields the receipts that OrderBook.AddOrder gives for the
\* same order on the same book.
C35_CreateOrderAsAddOrder ==
  [][ReachedBook =>
       SameAsAddOrder(AddOrderResult(CurEngine, bc, last'.order))]_vars

\* C36: when CreateOrder returns an error the order was not applied: the
\* book is as it was before the call.
C36_ErrorMeansNotApplied ==
  [][(last'.op = "CreateOrder" /\ steps' = steps + 1 /\ last'.err) =>
       (BookUnchanged /\ applied' = applied)]_vars

\* the step is an accepted submission of a GTC limit buy
LimitBuyStep ==
  /\ SubmissionStep
  /\ last'.order.kind = Limit /\ last'.order.side = Buy
  /\ last'.order.tif = GTC

\* what is left of the submitted order when the call returns: the residual of
\* its own matching less what the stops it activated took from it
LeftOnReturn == OwnResidual - SumQty(MadeBy)

\* C37: a limit buy gets a receipt only when it has been filled in full, and
\* the left kept for it in the BuyerCache is its remaining quantity, also when
\* the Done carries the trades of stops the submission activated.
C37_LimitBuyLeft ==
  [][LimitBuyStep =>
       /\ \A i \in 1..Len(last'.receipts) :
            last'.receipts[i].order = last'.id => LeftOnReturn = 0
       /\ BcHas(bc', last'.id) =>
            BcPos(bc', last'.id).left = LeftOnReturn]_vars

\* the receipt passes the three validations of the persistence path
AcceptedForStorage(r) ==
  /\ ReceiptHandlerValidateReceipt(r)
  /\ validateReceiptData(r)
  /\ PgSQLHandlerValidateReceipt(r)

\* C38: every receipt AddOrder returns is accepted by
\* ReceiptHandler.CreateReceipt, by KvDB.PutReceipt and by the consumer's
\* receipt validation.
C38_ReceiptsAccepted ==
  (last.op = "add" /\ ~last.err) =>
    \A i \in 1..Len(last.receipts) : AcceptedForStorage(last.receipts[i])

\* C39: while the store accepts writes, every delivery of an event that a
\* handler published is acknowledged; a delivery that is refused is queued
\* again at the head, where it is refused again and keeps back what is behind.
C39_PublishedEventsAcked ==
  \A j \in 1..Len(seen) :
    (seen[j].mid > 0 /\ acks[j].dbUp) => acks[j].calls = <<"ack">>

\* C40: the book is never crossed when a call has returned: every live
\* resting bid is priced below every live resting ask.
C40_NotCrossed ==
  \A i \in 1..Len(bids) : \A j \in 1..Len(asks) :
    (~ord[bids[i]].canceled /\ ~ord[asks[j]].canceled) =>
      ord[bids[i]].price < ord[asks[j]].price

\* a limit buy traded at its limit, its residual rests, and an ask at a
\* higher price is still in the book
C40_Witness ==
  /\ last.op = "add" /\ ~last.err
  /\ last.order.kind = Limit /\ last.order.side = Buy
  /\ last.fills # <<>> /\ last.done.stored
  /\ \E i \in 1..Len(bids) : bids[i] = last.id
  /\ asks # <<>>

====
